---- MODULE Spec2Model ----
(***************************************************************************)
(* Model of the synpatico client.                                          *)
(*                                                                         *)
(* Part I: createCore (src/src/core.ts): the structure registry and the    *)
(* negotiation protocol.  One record per call slot holds the position of   *)
(* an asynchronous synpaticoFetch invocation between its awaits; the       *)
(* network (originalFetch) and the configured lifecycle hooks are the      *)
(* environment and are chosen nondeterministically.                        *)
(***************************************************************************)
EXTENDS Integers, Sequences, FiniteSets, TLC

VARIABLES
    structures,              \* registry.structures: StructureId -> definition
    requestToStructureId,    \* registry.requestToStructureId: urlString -> StructureId
    knownSynpaticoOrigins,   \* Set<string> of origins that answered with the agent marker
    options,                 \* the options createCore was constructed with
    calls,                   \* per slot: the state of one synpaticoFetch invocation
    sinceClear               \* history: what was registered since the last clearCache

\* Part II: path telemetry (src/lib/sdk/usageWorker.ts, reporter of src/unnamed/part_005)
VARIABLES
    buckets,                 \* usageWorker: bucketKey -> (path -> count)
    reporterState,           \* reporter: [worker, buffer] (the interval timer is the environment)
    counted,                 \* history: path increments the usage worker applied
    sends,                   \* the transmissions in flight; history: what was handed over
    inputs                   \* history: number of telemetry inputs so far

\* Part III: the analytics worker (src/lib/analytics/worker.ts, lines 1-132)
VARIABLES
    worker,                  \* [enabled, transport, buffer, timer, metrics]
    workerLog                \* history: what was recorded since the last reset

\* Part IV: the analytics singleton (src/lib/analytics/worker.ts, lines 147-240)
\* and the tracking proxy (src/unnamed/part_000)
VARIABLES
    analytics,               \* [enabled, onBatch, batch, timer, metrics]
    analyticsLog,            \* history: what was tracked since the last reset
    raised,                  \* history: the entry point an exception last escaped from
    proxyOptions,            \* the ProxyOptions the root proxy was created with
    held,                    \* the value the application holds: [path, wrapped, depth,
                             \*   under, prefix]
    lastRead                 \* history: the last property read and what it returned

\* Part V: patchGlobals (src/unnamed/part_001)
VARIABLES
    window,                  \* [fetch, _synpaticoPatched, _synpaticoUnpatch]
    XMLHttpRequest,          \* [defined, open, send]: XMLHttpRequest.prototype
    handles,                 \* the PatchHandles patchGlobals returned, in order
    prePatch                 \* history: the functions installed when the patch was applied

\* Part VI: the monkey patch (src/unnamed/part_005)
VARIABLES
    isEnabled,               \* let ENABLED (a reserved word of TLA+)
    CONFIG,                  \* [include, exclude, sampleRate]: the predicates by their result
    registry,                \* endpointKey -> StructureDefinition
    fetchPatched,            \* let fetchPatched
    xhrPatched,              \* let xhrPatched
    fetching,                \* the state of one patchedFetch invocation
    xhr                      \* the state of one XMLHttpRequest sent through the patched send

coreVars == <<structures, requestToStructureId, knownSynpaticoOrigins, options, calls, sinceClear>>

pathVars == <<buckets, reporterState, counted>>

workerVars == <<worker, workerLog>>

analyticsVars == <<analytics, analyticsLog, raised>>

proxyVars == <<proxyOptions, held, lastRead>>

patchVars == <<window, XMLHttpRequest, handles, prePatch>>

telemetryVars == <<pathVars, workerVars, analyticsVars, proxyVars, sends, inputs>>

monkeyVars == <<isEnabled, CONFIG, registry, fetchPatched, xhrPatched, fetching, xhr>>

vars == <<coreVars, telemetryVars, patchVars, monkeyVars>>

registryVars == <<structures, requestToStructureId, knownSynpaticoOrigins>>

-----------------------------------------------------------------------------
(* Bounds *)

\* primitive values range over 1..MaxVal
MaxVal == 2

Vals == 1..MaxVal

-----------------------------------------------------------------------------
(* URLs.  A URL string is modelled by its components so that new URL(...)  *)
(* and the origin can be computed; a relative URL has no origin component  *)
(* and makes new URL(urlString) throw.                                     *)

Origins == {"https://api.example.com"}

UrlUsers5 == <<"https://api.example.com", "/users", "?limit=5">>
UrlUsers9 == <<"https://api.example.com", "/users", "?limit=9">>
UrlRelative == <<"/users">>

URLs == {UrlUsers5, UrlUsers9, UrlRelative}

Methods == {"GET", "POST"}

\* new URL(urlString) throws a TypeError for a string without scheme and host
UrlParses(u) == Len(u) = 3 /\ u[1] \in Origins

\* new URL(urlString).origin
UrlOrigin(u) == u[1]

\* origin + pathname of a parsed URL (the query is dropped)
registryKey(u) == IF UrlParses(u) THEN <<u[1], u[2], "">> ELSE u

-----------------------------------------------------------------------------
(* JSON values and body texts *)

None == "none"

JsonValue(kind, keys, vals, sid, opt) ==
    [kind |-> kind, keys |-> keys, vals |-> vals, structureId |-> sid, wasOptimized |-> opt]

Obj(keys, vals) == JsonValue("object", keys, vals, "", FALSE)
ArrayValue == JsonValue("array", <<>>, <<>>, "", FALSE)
NullValue == JsonValue("null", <<>>, <<>>, "", FALSE)
\* a primitive: a number
NumberValue == JsonValue("number", <<>>, <<>>, "", FALSE)
\* a StructurePacket { structureId, values }
Packet(sid, vals) == JsonValue("packet", <<>>, vals, sid, FALSE)

StructureIds == {"sidA", "sidAB"}

\* the plain objects a server answers with: two shapes
Objects == {Obj(<<"a">>, <<v>>) : v \in Vals} \cup {Obj(<<"a", "b">>, <<1, 1>>)}

\* the packets a server answers with; a packet whose values do not fit the
\* definition of its structureId is one the codec rejects
Packets ==
    {Packet("sidA", <<v>>) : v \in Vals}
        \cup {Packet("sidAB", <<1, 1>>), Packet("sidA", <<1, 1>>)}

\* a body text: valid JSON carrying a value, or text JSON.parse rejects
Text(valid, value) == [valid |-> valid, value |-> value]
JSONstringify(v) == Text(TRUE, v)
Garbage == Text(FALSE, NullValue)

\* JSON.parse(text): the value, or a SyntaxError
JSONparseThrows(text) == ~text.valid
JSONparse(text) == text.value

-----------------------------------------------------------------------------
(* The codec (@synpatico/core), an external collaborator: a structure id   *)
(* is a fingerprint of the key shape, a packet carries the values in key   *)
(* order, decode rebuilds the object from the definition and the values.   *)

ShapeId(keys) == IF keys = <<"a">> THEN "sidA" ELSE "sidAB"

createStructureDefinition(data) == [id |-> ShapeId(data.keys), keys |-> data.keys]

decodeThrows(packet, def) == Len(packet.vals) # Len(def.keys)

decode(packet, def) == Obj(def.keys, packet.vals)

\* the hook of the test: { ...data, __meta: { url, structureId, wasOptimized } }
transformDecoded(structureId, wasOptimized, data) ==
    JsonValue("transformed", data.keys, data.vals, structureId, wasOptimized)

isPlainObject(x) == x.kind \in {"object", "packet", "transformed"}

-----------------------------------------------------------------------------
(* Responses of the underlying fetch *)

JSON_CT == "application/json"
PACKET_CT == "application/synpatico-packet+json"
TEXT_CT == "text/plain"

MakeResponse(marker, status, ct, body) ==
    [marker |-> marker, status |-> status, ct |-> ct, body |-> body]

JsonBodies ==
    {JSONstringify(v) : v \in Objects \cup {ArrayValue, NullValue, NumberValue}} \cup {Garbage}
PacketBodies == {JSONstringify(p) : p \in Packets \cup {NullValue}} \cup {Garbage}

BodiesOf(ct) ==
    IF ct = JSON_CT THEN JsonBodies
    ELSE IF ct = PACKET_CT THEN PacketBodies
    ELSE {Garbage}

\* one body per content type, for the responses whose body the client never reads
PlainBody(ct) ==
    IF ct = JSON_CT THEN JSONstringify(Obj(<<"a">>, <<1>>))
    ELSE IF ct = PACKET_CT THEN JSONstringify(Packet("sidA", <<1>>))
    ELSE Garbage

ContentTypes == {JSON_CT, PACKET_CT, TEXT_CT}

OK == 200
CONFLICT == 409

\* what the first underlying call can resolve with: every body under the agent
\* marker and status 200, one body per content type otherwise
Responses ==
    UNION {{MakeResponse(TRUE, OK, ct, b) : b \in BodiesOf(ct)} : ct \in ContentTypes}
        \cup {MakeResponse(m, st, ct, PlainBody(ct)) :
                 m \in BOOLEAN, st \in {OK, CONFLICT}, ct \in ContentTypes}

\* what a retry or a reissue can resolve with
SecondResponses ==
    {MakeResponse(m, st, JSON_CT, PlainBody(JSON_CT)) : m \in BOOLEAN, st \in {OK, CONFLICT}}
        \cup {MakeResponse(TRUE, OK, PACKET_CT, PlainBody(PACKET_CT))}

NoResponse == MakeResponse(FALSE, 0, "", Garbage)

\* the outcome of the promise synpaticoFetch returned
Pending == [state |-> "pending", response |-> NoResponse, error |-> ""]
Resolved(r) == [state |-> "resolved", response |-> r, error |-> ""]
Rejected(e) == [state |-> "rejected", response |-> NoResponse, error |-> e]

NetworkError == "NetworkError"

\* one underlying call: originalFetch(url, init)
Request(url, method, acceptId, init) ==
    [url |-> url, method |-> method, acceptId |-> acceptId, init |-> init]

-----------------------------------------------------------------------------
(* Call slots *)

Slots == {"c1", "c2"}
SeqSlots == {"c1"}

IdleCall ==
    [pc |-> "idle", url |-> <<>>, method |-> "", sent |-> <<>>, received |-> <<>>,
     result |-> Pending, learned |-> 0, decoded |-> 0, errors |-> {}, caught |-> None]

\* enableLifecycle matters only when hooks are configured
OptionSets ==
    {o \in [isTargetUrl : {"none", "apiOnly"}, enableLifecycle : BOOLEAN,
            lifecycle : {"none", "hooks"}] : o.lifecycle = "none" => o.enableLifecycle}

\* isTargetUrl: (u) => u.startsWith('https://api.example.com')
isTargetUrl(u) == u[1] = "https://api.example.com"

\* what a call of a lifecycle hook can do
HookOutcomes == IF options.lifecycle = "hooks" THEN {"returns", "throws"} ELSE {"absent"}

MapSetKeepsFirst(m, k, v) ==
    [x \in DOMAIN m \cup {k} |-> IF x \in DOMAIN m THEN m[x] ELSE v]

MapSetEvicting(m, k, v) == [x \in {k} |-> v]

\* Map.prototype.set(k, v): the map afterwards
MapSet(m, k, v) == [x \in DOMAIN m \cup {k} |-> IF x = k THEN v ELSE m[x]]

EmptyMap == [x \in {} |-> None]

NothingSince == [urls |-> {}, ids |-> {}, origins |-> {}]

Init ==
    /\ structures = EmptyMap
    /\ requestToStructureId = EmptyMap
    /\ knownSynpaticoOrigins = {}
    /\ options \in OptionSets
    /\ calls = [c \in Slots |-> IdleCall]
    /\ sinceClear = NothingSince

acceptIdHintAnyOrigin(urlString, canOptimize) ==
    IF canOptimize /\ urlString \in DOMAIN requestToStructureId
    THEN requestToStructureId[urlString]
    ELSE None

acceptIdHintByRoute(urlString, canOptimize) ==
    IF ~UrlParses(urlString) THEN None
    ELSE IF canOptimize /\ UrlOrigin(urlString) \in knownSynpaticoOrigins
         THEN IF registryKey(urlString) \in DOMAIN requestToStructureId
              THEN requestToStructureId[registryKey(urlString)]
              ELSE None
         ELSE None

\* acceptIdHint(urlString, canOptimize).structureIdHint
acceptIdHint(urlString, canOptimize) ==
    IF ~UrlParses(urlString) THEN None
    ELSE IF canOptimize /\ UrlOrigin(urlString) \in knownSynpaticoOrigins
         THEN IF urlString \in DOMAIN requestToStructureId
              THEN requestToStructureId[urlString]
              ELSE None
         ELSE None

\* markOrigin(urlString): the known-origin set afterwards
markOrigin(urlString) ==
    IF UrlParses(urlString)
    THEN knownSynpaticoOrigins \cup {UrlOrigin(urlString)}
    ELSE knownSynpaticoOrigins

-----------------------------------------------------------------------------
(* synpaticoFetch, up to the first await: the target check, the hint, the  *)
(* beforeRequest hook and the first underlying call.                       *)

\* lifecycle.beforeRequest / afterResponse run only when enableLifecycle is set
GatedHookOutcomes == IF options.enableLifecycle THEN HookOutcomes ELSE {"absent"}

EnhancedRequestAnyMethod(url, method) ==
    Request(url, method, acceptIdHint(url, TRUE), "enhanced")

\* the init of the first underlying call: { ...init, headers + hint }
EnhancedRequest(url, method) ==
    Request(url, method, acceptIdHint(url, method = "GET"), "enhanced")

IsTargetAlways(url) == TRUE

\* if (isTargetUrl && !isTargetUrl(urlString)) return originalFetch(urlString, init)
IsTarget(url) == options.isTargetUrl = "none" \/ isTargetUrl(url)

synpaticoFetch(c) ==
    /\ calls[c].pc \in {"idle", "done"}
    /\ \E url \in URLs, method \in Methods, beforeRequest \in GatedHookOutcomes :
        calls' = [calls EXCEPT ![c] =
            IF ~IsTarget(url)
            THEN [IdleCall EXCEPT !.pc = "bypass", !.url = url, !.method = method,
                                  !.sent = <<Request(url, method, None, "caller")>>]
            ELSE [IdleCall EXCEPT !.pc = "sent", !.url = url, !.method = method,
                                  !.sent = <<EnhancedRequest(url, method)>>,
                                  !.errors = IF beforeRequest = "throws"
                                             THEN {"request"} ELSE {}]]
    /\ UNCHANGED <<registryVars, options, sinceClear>>

wasOptimized(call) == call.sent[1].acceptId # None

RetryRequestKeepsHint(call) ==
    Request(call.url, call.method, call.sent[1].acceptId, "enhanced")

\* the retry after a 409: { ...init, headers: init.headers minus the Accept-ID }
RetryRequest(call) == Request(call.url, call.method, None, "caller")

ReissueRequestKeepsHint(call) == Request(call.url, "GET", call.sent[1].acceptId, "empty")

\* the unoptimized reissue: originalFetch(urlString, {})
ReissueRequest(call) == Request(call.url, "GET", None, "empty")

\* the first underlying call resolves with r; classification of the response
Classify(call, r) ==
    IF r.status = 409 /\ wasOptimized(call) THEN "retry"
    ELSE IF ~r.marker THEN "passthrough"
    ELSE IF r.ct = PACKET_CT THEN "text"
    ELSE IF r.ct = JSON_CT THEN "json"
    ELSE "other"

originalFetchResolves(c) ==
    /\ calls[c].pc = "sent"
    /\ \E r \in Responses, afterResponse \in GatedHookOutcomes :
        LET call == calls[c]
            errs == IF afterResponse = "throws"
                    THEN call.errors \cup {"response"} ELSE call.errors
            k == Classify(call, r)
        IN  /\ calls' = [calls EXCEPT ![c] =
                  IF k = "retry"
                  THEN [call EXCEPT !.pc = "resent", !.errors = errs, !.received = <<r>>,
                                    !.sent = Append(call.sent, RetryRequest(call))]
                  ELSE IF k \in {"text", "json"}
                  THEN [call EXCEPT !.pc = k, !.errors = errs, !.received = <<r>>]
                  ELSE [call EXCEPT !.pc = "done", !.errors = errs, !.received = <<r>>,
                                    !.result = Resolved(r)]]
            /\ knownSynpaticoOrigins' =
                  IF k \in {"text", "json", "other"}
                  THEN markOrigin(call.url) ELSE knownSynpaticoOrigins
            /\ sinceClear' =
                  IF k \in {"text", "json", "other"} /\ UrlParses(call.url)
                  THEN [sinceClear EXCEPT !.origins = @ \cup {UrlOrigin(call.url)}]
                  ELSE sinceClear
    /\ UNCHANGED <<structures, requestToStructureId, options>>

\* a non-target call returns originalFetch(urlString, init) as it is
bypassResolves(c) ==
    /\ calls[c].pc = "bypass"
    /\ \E r \in Responses :
        calls' = [calls EXCEPT ![c] = [@ EXCEPT !.pc = "done", !.received = <<r>>,
                                                 !.result = Resolved(r)]]
    /\ UNCHANGED <<registryVars, options, sinceClear>>

\* the retry or the reissue resolves: its response is returned
secondFetchResolves(c) ==
    /\ calls[c].pc = "resent"
    /\ \E r \in SecondResponses :
        calls' = [calls EXCEPT ![c] = [@ EXCEPT !.pc = "done", !.result = Resolved(r),
                                                 !.received = Append(@, r)]]
    /\ UNCHANGED <<registryVars, options, sinceClear>>

\* an underlying call rejects: the rejection is the promise's
originalFetchRejects(c) ==
    /\ calls[c].pc \in {"sent", "bypass", "resent"}
    /\ calls' = [calls EXCEPT ![c] = [@ EXCEPT !.pc = "done",
                                               !.result = Rejected(NetworkError)]]
    /\ UNCHANGED <<registryVars, options, sinceClear>>

-----------------------------------------------------------------------------
(* The body of an agent-marked response has been read: DECODE and LEARN.   *)

JsonResponseKeepsType(resp, out) ==
    MakeResponse(resp.marker, resp.status, resp.ct, JSONstringify(out))

\* new Response(JSON.stringify(out), { status, statusText, headers + Content-Type })
JsonResponse(resp, out) == MakeResponse(resp.marker, resp.status, JSON_CT, JSONstringify(out))

Reissue(call, errs, what) ==
    [call EXCEPT !.pc = "resent", !.errors = errs, !.caught = what,
                 !.sent = Append(call.sent, ReissueRequest(call))]

\* the decoded value after the optional transformDecoded hook (wasOptimized: true)
DecodeOutput(transform, structureId, decoded) ==
    IF transform = "absent" THEN decoded
    ELSE transformDecoded(structureId, TRUE, decoded)

\* handleOptimizedPacketResponse after `await resp.text()`
DecodeStep(call, onPacketDecoded, transform) ==
    LET resp == call.received[1]
        text == resp.body
        packet == JSONparse(text)
        def == structures[packet.structureId]
        decodeErr == call.errors \cup {"decode"}
        emitted == IF onPacketDecoded = "absent" THEN 0 ELSE 1
        decoded == decode(packet, def)
        out == DecodeOutput(transform, packet.structureId, decoded)
    IN  IF JSONparseThrows(text) THEN Reissue(call, decodeErr, "JSON.parse")
        ELSE IF packet.kind = "null"
        THEN \* packet.structureId on null: a TypeError outside every try block
             [call EXCEPT !.pc = "done", !.caught = "TypeError",
                          !.result = Rejected("TypeError")]
        ELSE IF packet.kind # "packet" \/ packet.structureId \notin DOMAIN structures
        THEN Reissue(call, call.errors, None)
        ELSE IF decodeThrows(packet, def) THEN Reissue(call, decodeErr, "decode")
        ELSE IF onPacketDecoded = "throws"
        THEN [Reissue(call, decodeErr, "onPacketDecoded") EXCEPT !.decoded = emitted]
        ELSE IF transform = "throws"
        THEN [Reissue(call, decodeErr, "transformDecoded") EXCEPT !.decoded = emitted]
        ELSE [call EXCEPT !.pc = "done", !.decoded = emitted,
                          !.result = Resolved(JsonResponse(resp, out))]

handleOptimizedPacketResponse(c) ==
    /\ calls[c].pc = "text"
    /\ \E onPacketDecoded \in HookOutcomes, transform \in HookOutcomes :
        calls' = [calls EXCEPT ![c] = DecodeStep(calls[c], onPacketDecoded, transform)]
    /\ UNCHANGED <<registryVars, options, sinceClear>>

LearnsAnyJson(resp) == ~JSONparseThrows(resp.body)

\* does learnFromJsonResponse register the body read from the response
Learns(resp) ==
    /\ ~JSONparseThrows(resp.body)
    /\ isPlainObject(JSONparse(resp.body))

LearnOutputFlagged(transform, structureId, data) ==
    IF transform = "absent" THEN data
    ELSE transformDecoded(structureId, TRUE, data)

\* the learned value after the optional transformDecoded hook (wasOptimized: false)
LearnOutput(transform, structureId, data) ==
    IF transform = "absent" THEN data
    ELSE transformDecoded(structureId, FALSE, data)

\* learnFromJsonResponse after `await clone.json()`: the call afterwards
LearnStep(call, onLearnedStructure, transform) ==
    LET resp == call.received[1]
        data == JSONparse(resp.body)
        def == createStructureDefinition(data)
        emitted == IF onLearnedStructure = "absent" THEN 0 ELSE 1
        out == LearnOutput(transform, def.id, data)
    IN  IF ~Learns(resp)
        THEN [call EXCEPT !.pc = "done", !.result = Resolved(resp)]
        ELSE IF onLearnedStructure = "throws"
        THEN [call EXCEPT !.pc = "done", !.learned = emitted,
                          !.caught = "onLearnedStructure",
                          !.result = Resolved(resp)]
        ELSE IF transform = "throws"
        THEN [call EXCEPT !.pc = "done", !.learned = emitted,
                          !.caught = "transformDecoded",
                          !.result = Resolved(resp)]
        ELSE [call EXCEPT !.pc = "done", !.learned = emitted,
                          !.result = Resolved(JsonResponse(resp, out))]

\* the key learnFromJsonResponse registers the definition under
LearnKey(urlString) == urlString

\* a learnFromJsonResponse that registers only when no hook throws
learnFromJsonResponseRollsBack(c) ==
    /\ calls[c].pc = "json"
    /\ \E onLearnedStructure \in HookOutcomes, transform \in HookOutcomes :
        /\ calls' = [calls EXCEPT ![c] = LearnStep(calls[c], onLearnedStructure, transform)]
        /\ IF Learns(calls[c].received[1])
              /\ onLearnedStructure # "throws" /\ transform # "throws"
           THEN LET def == createStructureDefinition(JSONparse(calls[c].received[1].body))
                IN  /\ structures' = MapSet(structures, def.id, def)
                    /\ requestToStructureId' =
                          MapSet(requestToStructureId, LearnKey(calls[c].url), def.id)
                    /\ sinceClear' = [sinceClear EXCEPT !.urls = @ \cup {LearnKey(calls[c].url)},
                                                        !.ids = @ \cup {def.id}]
           ELSE UNCHANGED <<structures, requestToStructureId, sinceClear>>
    /\ UNCHANGED <<knownSynpaticoOrigins, options>>

learnFromJsonResponse(c) ==
    /\ calls[c].pc = "json"
    /\ \E onLearnedStructure \in HookOutcomes, transform \in HookOutcomes :
        calls' = [calls EXCEPT ![c] = LearnStep(calls[c], onLearnedStructure, transform)]
    /\ IF Learns(calls[c].received[1])
       THEN LET def == createStructureDefinition(JSONparse(calls[c].received[1].body))
            IN  /\ structures' = MapSet(structures, def.id, def)
                /\ requestToStructureId' =
                      MapSet(requestToStructureId, LearnKey(calls[c].url), def.id)
                /\ sinceClear' = [sinceClear EXCEPT !.urls = @ \cup {LearnKey(calls[c].url)},
                                                    !.ids = @ \cup {def.id}]
       ELSE UNCHANGED <<structures, requestToStructureId, sinceClear>>
    /\ UNCHANGED <<knownSynpaticoOrigins, options>>

\* reading the body fails: resp.text() rejects out of handleOptimizedPacketResponse,
\* clone.json() rejects into learnFromJsonResponse's catch, which returns resp
bodyReadRejects(c) ==
    /\ calls[c].pc \in {"text", "json"}
    /\ LET call == calls[c]
       IN  calls' = [calls EXCEPT ![c] =
              IF call.pc = "text"
              THEN [call EXCEPT !.pc = "done", !.caught = "body",
                                !.result = Rejected(NetworkError)]
              ELSE [call EXCEPT !.pc = "done", !.caught = "body",
                                !.result = Resolved(call.received[1])]]
    /\ UNCHANGED <<registryVars, options, sinceClear>>

clearCacheKeepsOrigins ==
    /\ structures' = EmptyMap
    /\ requestToStructureId' = EmptyMap
    /\ sinceClear' = NothingSince
    /\ UNCHANGED <<knownSynpaticoOrigins, options, calls>>

clearCache ==
    /\ structures' = EmptyMap
    /\ requestToStructureId' = EmptyMap
    /\ knownSynpaticoOrigins' = {}
    /\ sinceClear' = NothingSince
    /\ UNCHANGED <<options, calls>>

-----------------------------------------------------------------------------
(* Part II: path telemetry.  The reporter posts TelemetryMsg records either *)
(* to the usage worker, which counts paths per bucket, or to its own       *)
(* buffer; both are flushed by a timer and on pagehide, which the          *)
(* environment fires at any time.                                          *)

\* const MAX_PATHS_PER_BUCKET = 5000, scaled down to keep saturation reachable
MAX_PATHS_PER_BUCKET == 2

\* telemetry inputs (messages, events, reads) in one behaviour
MaxInputs == 2

\* String(ord)
String(ord) == IF ord = 0 THEN "0" ELSE "1"

MsgStrings(sid, ep, ts, paths) ==
    [kind |-> "paths-strings", structureId |-> sid, endpoint |-> ep, timestamp |-> ts,
     paths |-> paths, ordinals |-> <<>>]

MsgOrdinals(sid, ep, ts, ordinals) ==
    [kind |-> "paths-ordinals", structureId |-> sid, endpoint |-> ep, timestamp |-> ts,
     paths |-> <<>>, ordinals |-> ordinals]

\* the messages posted at time ts: the paths read of one response, as strings
\* or as ordinals, for two endpoints
TelemetryMsgs(ts) ==
    {MsgStrings("sidA", "/users", ts, <<"a", "b">>),
     MsgStrings("sidA", "/users", ts, <<"c", "a">>),
     MsgOrdinals("sidA", "/users", ts, <<0, 1>>),
     MsgStrings("sidA", "/items", ts, <<"a", "b">>)}

bucketKey(sid, ep) == <<sid, "@@", ep>>

\* the paths a message counts, ordinals as their decimal strings
MsgPaths(msg) ==
    IF msg.kind = "paths-strings"
    THEN msg.paths
    ELSE [i \in 1..Len(msg.ordinals) |-> String(msg.ordinals[i])]

AddPathUncapped(bucket, p) ==
    MapSet(bucket, p, (IF p \in DOMAIN bucket THEN bucket[p] ELSE 0) + 1)

\* if (!bucket.has(p) && bucket.size >= MAX_PATHS_PER_BUCKET) continue
\* bucket.set(p, (bucket.get(p) || 0) + 1)
AddPath(bucket, p) ==
    IF p \notin DOMAIN bucket /\ Cardinality(DOMAIN bucket) >= MAX_PATHS_PER_BUCKET
    THEN bucket
    ELSE MapSet(bucket, p, (IF p \in DOMAIN bucket THEN bucket[p] ELSE 0) + 1)

RECURSIVE AddPaths(_, _)
AddPaths(bucket, ps) ==
    IF ps = <<>> THEN bucket ELSE AddPaths(AddPath(bucket, Head(ps)), Tail(ps))

RECURSIVE SumOver(_, _)
SumOver(f, S) ==
    IF S = {} THEN 0
    ELSE LET x == CHOOSE y \in S : TRUE IN f[x] + SumOver(f, S \ {x})

\* the increments a bucket holds
BucketTotal(bucket) == SumOver(bucket, DOMAIN bucket)

\* the increments a bucket map holds
BucketsTotal(bs) == SumOver([k \in DOMAIN bs |-> BucketTotal(bs[k])], DOMAIN bs)

BucketOf(key) == IF key \in DOMAIN buckets THEN buckets[key] ELSE EmptyMap

handleMsgFreshBucket(msg) ==
    LET key == bucketKey(msg.structureId, msg.endpoint)
        bucket == AddPaths(EmptyMap, MsgPaths(msg))
    IN  /\ buckets' = MapSet(buckets, key, bucket)
        /\ counted' = counted + BucketTotal(bucket)

\* self.onmessage of the usage worker
handleMsg(msg) ==
    LET key == bucketKey(msg.structureId, msg.endpoint)
        bucket == AddPaths(BucketOf(key), MsgPaths(msg))
    IN  /\ buckets' = MapSet(buckets, key, bucket)
        /\ counted' = counted + BucketTotal(bucket) - BucketTotal(BucketOf(key))

\* one batch handed to a transport, and how the hand-over ended so far
Send(from, payload, state) == [from |-> from, payload |-> payload, state |-> state]

\* the timestamps of the events or messages of a batch
Stamps(b) ==
    IF b.from = "usageWorker" THEN {}
    ELSE {b.payload[i].timestamp : i \in 1..Len(b.payload)}

\* the number of events or messages of a batch
Events(b) == IF b.from = "usageWorker" THEN 0 ELSE Len(b.payload)

\* the path increments of a batch
Increments(b) == IF b.from = "usageWorker" THEN BucketsTotal(b.payload) ELSE 0

\* pending: the transmissions in flight; history: the hand-overs started,
\* delivered and failed, the timestamps and the path increments handed over, and
\* the timestamps of the events a reset discarded
NoSends ==
    [pending |-> {}, started |-> 0, delivered |-> 0, failed |-> 0,
     handed |-> {}, events |-> 0, increments |-> 0, discarded |-> {}]

\* the events of a buffer that a reset empties are gone
Discard(s, buffer) ==
    [s EXCEPT !.discarded = @ \cup {buffer[i].timestamp : i \in 1..Len(buffer)}]

\* the record of the batches bs (none or one) being handed over
Hand(s, bs) ==
    IF bs = <<>> THEN s
    ELSE LET b == bs[1]
         IN  [pending |-> IF b.state = "pending"
                          THEN s.pending \cup {[id |-> s.started + 1, from |-> b.from,
                                                payload |-> b.payload]}
                          ELSE s.pending,
              started |-> s.started + 1,
              delivered |-> s.delivered + (IF b.state = "delivered" THEN 1 ELSE 0),
              failed |-> s.failed + (IF b.state = "failed" THEN 1 ELSE 0),
              handed |-> s.handed \cup Stamps(b),
              events |-> s.events + Events(b),
              increments |-> s.increments + Increments(b),
              discarded |-> s.discarded]

\* post of the reporter: to the worker when there is one, else to the buffer
post ==
    /\ inputs < MaxInputs
    /\ inputs' = inputs + 1
    /\ \E msg \in TelemetryMsgs(inputs + 1) :
        IF reporterState.worker
        THEN handleMsg(msg) /\ UNCHANGED reporterState
        ELSE /\ reporterState' = [reporterState EXCEPT !.buffer = Append(@, msg)]
             /\ UNCHANGED <<buckets, counted>>
    /\ UNCHANGED sends

usageFlushKeepsBuckets ==
    /\ DOMAIN buckets # {}
    /\ sends' = Hand(sends, <<Send("usageWorker", buckets, "pending")>>)
    /\ UNCHANGED <<buckets, reporterState, counted, inputs>>

\* flush of the usage worker: the payload is taken and the buckets cleared before
\* the transmission starts
usageFlush ==
    /\ DOMAIN buckets # {}
    /\ sends' = Hand(sends, <<Send("usageWorker", buckets, "pending")>>)
    /\ buckets' = EmptyMap
    /\ UNCHANGED <<reporterState, counted, inputs>>

\* flush of the reporter: sendBeacon first, fetch when it is missing or refuses
reporterFlush ==
    /\ reporterState.buffer # <<>>
    /\ \E beacon \in {"queued", "refused", "throws"} :
        sends' = Hand(sends, <<Send("reporter", reporterState.buffer,
                                     CASE beacon = "queued" -> "delivered"
                                       [] beacon = "refused" -> "pending"
                                       [] beacon = "throws" -> "failed")>>)
    /\ reporterState' = [reporterState EXCEPT !.buffer = <<>>]
    /\ UNCHANGED <<buckets, counted, inputs>>

\* initReporter(cfg): the buffer is emptied and the worker created when
\* cfg.workerUrl is set and the Worker can be constructed
initReporter ==
    /\ \E hasWorker \in BOOLEAN :
        reporterState' = [worker |-> hasWorker, buffer |-> <<>>]
    /\ UNCHANGED <<buckets, counted, sends, inputs>>

\* let reporter = initReporter() with the default CONFIG, which has no workerUrl
PathsInit ==
    /\ buckets = EmptyMap
    /\ reporterState = [worker |-> FALSE, buffer |-> <<>>]
    /\ counted = 0

-----------------------------------------------------------------------------
(* Part III: the analytics worker.  It aggregates metrics over the events  *)
(* it is sent and transmits them in batches, when the buffer reaches       *)
(* maxBatchSize, when its timer fires and when it is told to flush.        *)

\* opts.maxBatchSize of the worker (500 when not configured), scaled down
WorkerMaxBatchSize == 2

\* an optional number that is absent
Undefined == -1

\* property paths are kept as the sequence of the names a dot joins
PropertyPaths == {<<"a">>}

RequestEvent(ts, optimized, originalSize, compressedSize) ==
    [kind |-> "request", timestamp |-> ts, wasOptimized |-> optimized,
     originalSize |-> originalSize, compressedSize |-> compressedSize,
     propertyPath |-> <<>>, depth |-> 0, dataType |-> None]

PropertyAccessEvent(ts, path, depth, dataType) ==
    [kind |-> "property_access", timestamp |-> ts, wasOptimized |-> FALSE,
     originalSize |-> Undefined, compressedSize |-> Undefined,
     propertyPath |-> path, depth |-> depth, dataType |-> dataType]

\* the requests reported: <<optimized, originalSize, compressedSize>>; an
\* unoptimized one, and optimized ones with one size, with a smaller and with a
\* larger packet
RequestInputs ==
    {<<FALSE, 2, 1>>, <<TRUE, 2, Undefined>>, <<TRUE, 2, 1>>, <<TRUE, 1, 2>>}

\* the events the worker can be sent at time ts
AnalyticsEvents(ts) ==
    {RequestEvent(ts, r[1], r[2], r[3]) : r \in RequestInputs}
    \cup {PropertyAccessEvent(ts, path, 0, "number") : path \in PropertyPaths}

NoMetrics ==
    [totalRequests |-> 0, optimizedRequests |-> 0, bandwidthSaved |-> 0,
     propertyAccesses |-> EmptyMap]

Max(a, b) == IF a >= b THEN a ELSE b

\* typeof originalSize === "number" && typeof compressedSize === "number"
BothSizes(e) == e.originalSize # Undefined /\ e.compressedSize # Undefined

\* Math.max(0, originalSize - compressedSize)
Saving(e) == Max(0, e.originalSize - e.compressedSize)

\* the history of an aggregator: the requests it was given while enabled since
\* its last reset, those of them that were optimized, and the bytes the
\* optimized ones with both sizes saved
NoLog == [requests |-> 0, optimized |-> 0, saved |-> 0]

Logged(log, e) ==
    IF e.kind # "request" THEN log
    ELSE [log EXCEPT
            !.requests = @ + 1,
            !.optimized = @ + (IF e.wasOptimized THEN 1 ELSE 0),
            !.saved = @ + (IF /\ e.wasOptimized
                              /\ e.originalSize # Undefined
                              /\ e.compressedSize # Undefined
                              /\ e.originalSize > e.compressedSize
                           THEN e.originalSize - e.compressedSize ELSE 0)]

Increment(m, key) == MapSet(m, key, (IF key \in DOMAIN m THEN m[key] ELSE 0) + 1)

AggregateUnclamped(metrics, e) ==
    IF e.kind = "request"
    THEN [metrics EXCEPT
            !.totalRequests = @ + 1,
            !.optimizedRequests = IF e.wasOptimized THEN @ + 1 ELSE @,
            !.bandwidthSaved = IF e.wasOptimized /\ BothSizes(e)
                               THEN @ + (e.originalSize - e.compressedSize) ELSE @]
    ELSE [metrics EXCEPT !.propertyAccesses = Increment(@, e.propertyPath)]

\* the metrics aggregation of record(e)
Aggregate(metrics, e) ==
    IF e.kind = "request"
    THEN [metrics EXCEPT
            !.totalRequests = @ + 1,
            !.optimizedRequests = IF e.wasOptimized THEN @ + 1 ELSE @,
            !.bandwidthSaved = IF e.wasOptimized /\ BothSizes(e)
                               THEN @ + Saving(e) ELSE @]
    ELSE [metrics EXCEPT !.propertyAccesses = Increment(@, e.propertyPath)]

\* flush() of the worker on state w: the buffer is taken before the transmission
\* starts; with the fetch transport the timer is cleared when the call settles
WorkerFlushed(w) ==
    IF ~w.enabled \/ w.buffer = <<>>
    THEN [w EXCEPT !.timer = "unset"]
    ELSE [w EXCEPT !.buffer = <<>>,
                   !.timer = IF w.transport = "fetch" THEN @ ELSE "unset"]

\* what flush() of the worker on state w hands to the transport
WorkerSent(w) ==
    IF w.enabled /\ w.buffer # <<>> /\ w.transport = "fetch"
    THEN <<Send("worker", w.buffer, "pending")>>
    ELSE <<>>

\* schedule()
Scheduled(w) == IF w.timer = "unset" THEN [w EXCEPT !.timer = "armed"] ELSE w

\* case "init"
workerInit ==
    /\ \E enabled \in BOOLEAN, transport \in {"noop", "fetch"} :
        worker' = [worker EXCEPT !.enabled = enabled, !.transport = transport]
    /\ UNCHANGED <<workerLog, sends, inputs>>

\* case "events" with one event: record(e) when enabled
workerEvents ==
    /\ inputs < MaxInputs
    /\ inputs' = inputs + 1
    /\ \E e \in AnalyticsEvents(inputs + 1) :
        IF ~worker.enabled
        THEN UNCHANGED <<worker, workerLog, sends>>
        ELSE LET w == [worker EXCEPT !.metrics = Aggregate(@, e),
                                     !.buffer = Append(@, e)]
             IN  /\ workerLog' = Logged(workerLog, e)
                 /\ IF Len(w.buffer) >= WorkerMaxBatchSize
                    THEN worker' = WorkerFlushed(w) /\ sends' = Hand(sends, WorkerSent(w))
                    ELSE worker' = Scheduled(w) /\ UNCHANGED sends

\* case "flush"
workerFlush ==
    /\ worker' = WorkerFlushed(worker)
    /\ sends' = Hand(sends, WorkerSent(worker))
    /\ UNCHANGED <<workerLog, inputs>>

\* the timeout set by schedule() expires: flush()
workerTimerFires ==
    /\ worker.timer = "armed"
    /\ worker' = WorkerFlushed([worker EXCEPT !.timer = "fired"])
    /\ sends' = Hand(sends, WorkerSent(worker))
    /\ UNCHANGED <<workerLog, inputs>>

ResetWorkerKeepsBuffer(w) == [w EXCEPT !.metrics = NoMetrics]

\* reset() of the worker
ResetWorker(w) == [w EXCEPT !.buffer = <<>>, !.metrics = NoMetrics]

\* case "reset"
workerReset ==
    /\ worker' = ResetWorker(worker)
    /\ workerLog' = NoLog
    /\ sends' = Discard(sends, worker.buffer)
    /\ UNCHANGED inputs

WorkerInitState ==
    /\ worker = [enabled |-> TRUE, transport |-> "noop", buffer |-> <<>>,
                 timer |-> "unset", metrics |-> NoMetrics]
    /\ workerLog = NoLog

\* the transport settles the pending transmission i; a failure is caught and
\* dropped; the worker's flush then runs its finally block: clearTimer()
Settled(t, state) ==
    /\ sends' = [sends EXCEPT !.pending = @ \ {t},
                              !.delivered = @ + (IF state = "delivered" THEN 1 ELSE 0),
                              !.failed = @ + (IF state = "failed" THEN 1 ELSE 0)]
    /\ worker' = IF t.from = "worker" THEN [worker EXCEPT !.timer = "unset"] ELSE worker
    /\ UNCHANGED <<pathVars, workerLog, inputs>>

transportResolves == \E t \in sends.pending : Settled(t, "delivered")

transportRejects == \E t \in sends.pending : Settled(t, "failed")

-----------------------------------------------------------------------------
(* Part IV: the analytics singleton and the tracking proxy.  The singleton *)
(* counts requests and property reads and hands the read events to the     *)
(* configured onBatch sink; the proxy reports every read of an             *)
(* instrumented object to it.                                              *)

\* opts.maxBatchSize of the singleton (200 when not configured), scaled down
AnalyticsMaxBatchSize == 2

\* what a call of the onBatch sink can do
SinkOutcomes == {"returns", "throws"}

\* the singleton after flushNow(): a disabled singleton discards its batch, an
\* enabled one takes it before it calls the sink
FlushedNow(a) ==
    IF ~a.enabled \/ a.batch # <<>> THEN [a EXCEPT !.batch = <<>>] ELSE a

\* what flushNow() on state a hands to the sink
SinkCalled(a) == a.enabled /\ a.batch # <<>> /\ a.onBatch

DeliveredNow(a, outcome) ==
    IF SinkCalled(a)
    THEN <<Send("analytics", a.batch, IF outcome = "throws" THEN "failed" ELSE "delivered")>>
    ELSE <<>>

\* onBatch?.(toSend) is not guarded: an exception of the sink leaves flushNow()
FlushNowThrows(a, outcome) == SinkCalled(a) /\ outcome = "throws"

\* init(opts)
analyticsInit ==
    /\ \E enabled \in {"absent", "true", "false"}, onBatch \in BOOLEAN :
        LET on == IF enabled = "absent" THEN analytics.enabled ELSE enabled = "true"
        IN  analytics' = [analytics EXCEPT !.enabled = on, !.timer = on,
                                           !.onBatch = onBatch \/ @]
    /\ UNCHANGED <<analyticsLog, raised, sends, inputs>>

setEnabled ==
    /\ \E on \in BOOLEAN : analytics' = [analytics EXCEPT !.enabled = on, !.timer = on]
    /\ UNCHANGED <<analyticsLog, raised, sends, inputs>>

\* trackAccess(e) on state a, before the size check
TrackedAccess(a, e) ==
    IF ~a.enabled THEN a
    ELSE [a EXCEPT !.metrics.propertyAccesses = Increment(@, e.propertyPath),
                   !.batch = Append(@, e)]

SizeReachedLate(a) == a.enabled /\ Len(a.batch) > AnalyticsMaxBatchSize

\* batch.length >= maxBatchSize, asked by an enabled singleton
SizeReached(a) == a.enabled /\ Len(a.batch) >= AnalyticsMaxBatchSize

\* trackPropertyAccess(e) with the effects of the flushNow() it may call
TrackAccessStep(e, outcome, entry) ==
    LET a == TrackedAccess(analytics, e)
    IN  /\ UNCHANGED analyticsLog
        /\ IF SizeReached(a)
           THEN /\ analytics' = FlushedNow(a)
                /\ sends' = Hand(sends, DeliveredNow(a, outcome))
                /\ raised' = IF FlushNowThrows(a, outcome) THEN entry ELSE raised
           ELSE /\ analytics' = a
                /\ UNCHANGED <<sends, raised>>

\* trackAccess(e) for every event in turn, until a flush throws
RECURSIVE TrackAll(_, _, _)
TrackAll(st, events, outcome) ==
    IF events = <<>> \/ st.threw THEN st
    ELSE LET a == TrackedAccess(st.analytics, Head(events))
         IN  IF SizeReached(a)
             THEN TrackAll([analytics |-> FlushedNow(a),
                            sends |-> Hand(st.sends, DeliveredNow(a, outcome)),
                            threw |-> FlushNowThrows(a, outcome)],
                           Tail(events), outcome)
             ELSE TrackAll([st EXCEPT !.analytics = a], Tail(events), outcome)

\* analytics.trackPropertyAccess(e) called by the application
trackPropertyAccess ==
    /\ inputs < MaxInputs
    /\ inputs' = inputs + 1
    /\ \E path \in PropertyPaths, outcome \in SinkOutcomes :
        TrackAccessStep(PropertyAccessEvent(inputs + 1, path, 0, "number"),
                        outcome, "trackPropertyAccess")

\* the metrics after trackRequest(url, optimized, originalSize, compressedSize);
\* the sizes are byte counts, never negative
TrackedRequest(metrics, optimized, originalSize, compressedSize) ==
    [metrics EXCEPT
        !.totalRequests = @ + 1,
        !.optimizedRequests = IF optimized THEN @ + 1 ELSE @,
        !.bandwidthSaved =
            IF /\ optimized
               /\ originalSize # Undefined /\ compressedSize # Undefined
               /\ originalSize >= 0 /\ compressedSize >= 0
            THEN @ + Max(0, originalSize - compressedSize) ELSE @]

trackRequest ==
    /\ inputs < MaxInputs
    /\ inputs' = inputs + 1
    /\ \E r \in RequestInputs :
        IF ~analytics.enabled
        THEN UNCHANGED <<analytics, analyticsLog>>
        ELSE /\ analytics' = [analytics EXCEPT !.metrics =
                   TrackedRequest(@, r[1], r[2], r[3])]
             /\ analyticsLog' = Logged(analyticsLog,
                   RequestEvent(inputs + 1, r[1], r[2], r[3]))
    /\ UNCHANGED <<raised, sends>>

\* flushNow() called by the application
flushNow ==
    /\ \E outcome \in SinkOutcomes :
        /\ analytics' = FlushedNow(analytics)
        /\ sends' = Hand(sends, DeliveredNow(analytics, outcome))
        /\ raised' = IF FlushNowThrows(analytics, outcome) THEN "flushNow" ELSE raised
    /\ UNCHANGED <<analyticsLog, inputs>>

\* the interval set by startTimer() fires: flushNow(); an exception of the sink
\* ends in the timer, not in a caller
analyticsTimerFires ==
    /\ analytics.timer
    /\ \E outcome \in SinkOutcomes :
        /\ analytics' = FlushedNow(analytics)
        /\ sends' = Hand(sends, DeliveredNow(analytics, outcome))
    /\ UNCHANGED <<analyticsLog, raised, inputs>>

\* reset() of the singleton
ResetAnalytics(a) == [a EXCEPT !.metrics = NoMetrics, !.batch = <<>>]

analyticsReset ==
    /\ analytics' = ResetAnalytics(analytics)
    /\ analyticsLog' = NoLog
    /\ sends' = Discard(sends, analytics.batch)
    /\ UNCHANGED <<raised, inputs>>

AnalyticsInitState ==
    /\ analytics = [enabled |-> TRUE, onBatch |-> FALSE, batch |-> <<>>,
                    timer |-> FALSE, metrics |-> NoMetrics]
    /\ analyticsLog = NoLog
    /\ raised = None

-----------------------------------------------------------------------------
(* The tracking proxy.  The application holds one value of the response    *)
(* at a time, the root proxy at first, and reads a property of it; the     *)
(* response is an object graph in which every object has the same          *)
(* properties, so that any depth can be read.                              *)

\* the roots are created with options.maxDepth in 0..MaxDepthOption (10 by default)
MaxDepthOption == 1

Props == {"a", "items", "n", "constructor"}

\* DEFAULT_OPTIONS.excludePaths
DEFAULT_EXCLUDE == {"constructor", "prototype", "__proto__", "valueOf", "toString"}

ProxyOptions(maxDepth, trackArrayAccess, excludePaths) ==
    [maxDepth |-> maxDepth, trackArrayAccess |-> trackArrayAccess,
     excludePaths |-> excludePaths]

\* the options a root is created with: a maximum depth, and at the largest
\* depth also untracked arrays and an exclusion list of the application
ProxyOptionSets ==
    {ProxyOptions(d, TRUE, DEFAULT_EXCLUDE) : d \in 0..MaxDepthOption}
    \cup {ProxyOptions(MaxDepthOption, FALSE, DEFAULT_EXCLUDE),
          ProxyOptions(MaxDepthOption, TRUE, {"a"})}

\* the kind of the value a path of the response leads to
ValueKind(path) ==
    IF path = <<>> THEN "object"
    ELSE CASE path[Len(path)] = "a" -> "object"
           [] path[Len(path)] = "items" -> "array"
           [] path[Len(path)] = "n" -> "number"
           [] path[Len(path)] = "constructor" -> "function"

IsObject(path) == ValueKind(path) \in {"object", "array"}

\* a value of the response: the names that lead to it from the root; for a
\* proxy its depth, the number of proxies under it (its target is a proxy when
\* under > 0) and the number of times context.rootPath is in its fullPath
Raw(path) == [path |-> path, wrapped |-> FALSE, depth |-> 0, under |-> 0, prefix |-> 0]

Proxy(path, depth) ==
    [path |-> path, wrapped |-> TRUE, depth |-> depth, under |-> 0, prefix |-> 0]

\* context.rootPath, when the application sets it
RootPath == "root"

\* fullPath of proxy h: currentPath with `${context.rootPath}.` in front when
\* both are set, else the one that is set.  currentPath is the propertyPath of
\* the read that created h, which holds the prefixes of its parent.
FullPath(h) == [i \in 1..h.prefix |-> RootPath] \o h.path

\* the proxy created for a value read through h has h's target under it when
\* h's target is a proxy, and its fullPath is prefixed once more than h's
ChildOf(h, v) ==
    IF ~v.wrapped THEN v
    ELSE [v EXCEPT !.under = h.under,
                   !.prefix = IF h.prefix = 0 THEN 0 ELSE h.prefix + 1]

createTrackingProxyAnyDepth(path, depth) ==
    IF ~IsObject(path) THEN Raw(path) ELSE Proxy(path, depth)

\* createTrackingProxy(target, context, options, currentPath, depth)
createTrackingProxy(path, depth) ==
    IF depth > proxyOptions.maxDepth THEN Raw(path)
    ELSE IF ~IsObject(path) THEN Raw(path)
    ELSE Proxy(path, depth)

IsExcludedNever(prop) == FALSE

\* opts.excludePaths.includes(prop.toString())
IsExcluded(prop) == prop \in proxyOptions.excludePaths

\* what the get trap of proxy h returns for prop
GetResult(h, prop) ==
    LET child == Append(h.path, prop)
    IN  IF IsExcluded(prop) THEN Raw(child)
        ELSE IF ValueKind(child) = "array"
        THEN IF proxyOptions.trackArrayAccess
             THEN ChildOf(h, createTrackingProxy(child, h.depth + 1)) ELSE Raw(child)
        ELSE IF ValueKind(child) = "object"
        THEN ChildOf(h, createTrackingProxy(child, h.depth + 1))
        ELSE Raw(child)

\* the event the get trap of proxy h builds for prop
GetEvent(h, prop, ts) ==
    PropertyAccessEvent(ts, Append(FullPath(h), prop), h.depth,
                        ValueKind(Append(h.path, prop)))

\* the proxy under h that is h's target
Target(h) == [h EXCEPT !.under = @ - 1]

\* the events of reading prop through proxy h, in the order of the trackAccess
\* calls.  The get trap of h calls Reflect.get(obj, prop) first: when obj is a
\* proxy, its get trap runs and tracks the read before h does.  Then h tests
\* value.constructor of an object that is no array: when that object is a
\* proxy, this is a read of "constructor" through it.
RECURSIVE GetEvents(_, _, _)
GetEvents(h, prop, ts) ==
    IF IsExcluded(prop) THEN <<>>
    ELSE LET value == IF h.under = 0 THEN Raw(Append(h.path, prop))
                      ELSE GetResult(Target(h), prop)
         IN  (IF h.under = 0 THEN <<>> ELSE GetEvents(Target(h), prop, ts))
                 \o <<GetEvent(h, prop, ts)>>
                 \o (IF value.wrapped /\ ValueKind(value.path) = "object"
                     THEN GetEvents(value, "constructor", ts) ELSE <<>>)

\* a read that threw returned nothing
NoResult == [path |-> <<>>, wrapped |-> FALSE, depth |-> -1, under |-> 0, prefix |-> 0]

NoRead ==
    [trap |-> None, on |-> NoResult, prop |-> None, result |-> NoResult,
     tracked |-> FALSE, threw |-> FALSE]

\* the singleton and the transmissions after the trackAccess calls for events
Tracking(events, outcome) ==
    TrackAll([analytics |-> analytics, sends |-> sends, threw |-> FALSE], events, outcome)

\* the application reads held[prop]
read ==
    /\ inputs < MaxInputs
    /\ inputs' = inputs + 1
    /\ \E prop \in Props, outcome \in SinkOutcomes :
        IF held.wrapped /\ ~IsExcluded(prop)
        THEN LET st == Tracking(GetEvents(held, prop, inputs + 1), outcome)
                 result == GetResult(held, prop)
             IN  /\ analytics' = st.analytics
                 /\ sends' = st.sends
                 /\ raised' = IF st.threw THEN "get" ELSE raised
                 /\ UNCHANGED analyticsLog
                 /\ lastRead' = [trap |-> "get", on |-> held, prop |-> prop,
                                 tracked |-> TRUE, threw |-> st.threw,
                                 result |-> IF st.threw THEN NoResult ELSE result]
                 /\ held' = IF ~st.threw /\ IsObject(result.path) THEN result ELSE held
        ELSE LET result == IF held.wrapped
                           THEN GetResult(held, prop) ELSE Raw(Append(held.path, prop))
             IN  /\ lastRead' = [trap |-> "get", on |-> held, prop |-> prop,
                                 tracked |-> FALSE, threw |-> FALSE, result |-> result]
                 /\ held' = IF IsObject(result.path) THEN result ELSE held
                 /\ UNCHANGED <<analyticsVars, sends>>
    /\ UNCHANGED proxyOptions

\* the tags of the traps that report a property without reading it
TrapTags ==
    [set |-> "[write]", has |-> "[has]", getOwnPropertyDescriptor |-> "[descriptor]"]

\* dataType of their events
TrapTypes == [set |-> "write", has |-> "has", getOwnPropertyDescriptor |-> "descriptor"]

\* the event the set, has or getOwnPropertyDescriptor trap of proxy h builds for
\* prop: `${propertyPath}[write]` and so on, the tag kept as a last segment
TrapEvent(h, trap, prop, ts) ==
    PropertyAccessEvent(ts, FullPath(h) \o <<prop, TrapTags[trap]>>, h.depth, TrapTypes[trap])

\* the event the ownKeys trap of proxy h builds: `${fullPath}[keys]`
KeysEvent(h, ts) == PropertyAccessEvent(ts, Append(FullPath(h), "[keys]"), h.depth, "keys")

\* the events of one of these operations on proxy h: the trap tracks, then calls
\* Reflect on its target, whose trap runs when the target is a proxy
RECURSIVE TrapEvents(_, _, _, _)
TrapEvents(h, trap, prop, ts) ==
    <<IF trap = "ownKeys" THEN KeysEvent(h, ts) ELSE TrapEvent(h, trap, prop, ts)>>
        \o (IF h.under = 0 THEN <<>> ELSE TrapEvents(Target(h), trap, prop, ts))

\* an operation on the held value that is no read, and the trackAccess calls
\* of its trap
Trapped(trap, prop, outcome) ==
    IF held.wrapped
    THEN LET st == Tracking(TrapEvents(held, trap, prop, inputs + 1), outcome)
         IN  /\ analytics' = st.analytics
             /\ sends' = st.sends
             /\ raised' = IF st.threw THEN trap ELSE raised
             /\ UNCHANGED analyticsLog
             /\ lastRead' = [trap |-> trap, on |-> held, prop |-> prop, tracked |-> TRUE,
                             threw |-> st.threw, result |-> NoResult]
    ELSE /\ lastRead' = [trap |-> trap, on |-> held, prop |-> prop, tracked |-> FALSE,
                         threw |-> FALSE, result |-> NoResult]
         /\ UNCHANGED <<analyticsVars, sends>>

\* the application evaluates `prop in held`, assigns held[prop] a value of the
\* kind it has, or asks for the descriptor of held[prop]
probe ==
    /\ inputs < MaxInputs
    /\ inputs' = inputs + 1
    /\ \E trap \in DOMAIN TrapTags, prop \in Props, outcome \in SinkOutcomes :
        Trapped(trap, prop, outcome)
    /\ UNCHANGED <<proxyOptions, held>>

\* the application enumerates the keys of held
ownKeys ==
    /\ inputs < MaxInputs
    /\ inputs' = inputs + 1
    /\ \E outcome \in SinkOutcomes : Trapped("ownKeys", None, outcome)
    /\ UNCHANGED <<proxyOptions, held>>

\* createTrackingProxy(target, context, options) of a response, with or without
\* context.rootPath: the application holds the new root
wrapRoot ==
    /\ \E o \in ProxyOptionSets, rooted \in BOOLEAN :
        /\ proxyOptions' = o
        /\ held' = [Proxy(<<>>, 0) EXCEPT !.prefix = IF rooted THEN 1 ELSE 0]
    /\ UNCHANGED <<lastRead, analyticsVars, sends, inputs>>

\* createTrackingProxy(held, context, options) of the root proxy the application
\* holds: a proxy whose target is that proxy
wrapAgain ==
    /\ held.wrapped
    /\ held.path = <<>>
    /\ held.under = 0
    /\ held' = [held EXCEPT !.under = 1]
    /\ UNCHANGED <<proxyOptions, lastRead, analyticsVars, sends, inputs>>

ProxyInit ==
    /\ proxyOptions = ProxyOptions(0, TRUE, DEFAULT_EXCLUDE)
    /\ held = Proxy(<<>>, 0)
    /\ lastRead = NoRead

-----------------------------------------------------------------------------
(* The client with analytics (createSynpaticoClient).  It keeps a registry *)
(* and a set of known origins of its own, has no lifecycle hooks, reports  *)
(* every classified request to the analytics singleton and, with           *)
(* enableAnalytics, returns the body serialized through a tracking proxy.  *)

\* createSynpaticoClient(options): enableAnalytics is true when not given
ClientOptionSets == [isTargetUrl : {"none", "apiOnly"}, enableAnalytics : BOOLEAN]

\* what JSON.stringify reads of a root proxy of data, an object of numbers: its
\* keys, the descriptor of every key, then every value (toJSON is excluded)
StringifyEvents(data, ts, optimized) ==
    LET keys == data.keys
        event(path, type) ==
            [PropertyAccessEvent(ts, path, 0, type) EXCEPT !.wasOptimized = optimized]
    IN  <<event(<<"[keys]">>, "keys")>>
            \o [i \in 1..Len(keys) |-> event(<<keys[i], "[descriptor]">>, "descriptor")]
            \o [i \in 1..Len(keys) |-> event(<<keys[i]>>, "number")]

\* JSON.stringify(createApiResponseProxy(data, ctx, proxyOptions)) when
\* enableAnalytics is set, JSON.stringify(data) otherwise
Stringified(a, data, ts, optimized, outcome) ==
    IF options.enableAnalytics
    THEN TrackAll([analytics |-> a, sends |-> sends, threw |-> FALSE],
                  StringifyEvents(data, ts, optimized), outcome)
    ELSE [analytics |-> a, sends |-> sends, threw |-> FALSE]

\* getAnalytics().trackRequest(url, optimized, originalSize, compressedSize)
ReportedRequest(a, r) ==
    IF a.enabled THEN [a EXCEPT !.metrics = TrackedRequest(@, r[1], r[2], r[3])] ELSE a

ReportedLog(a, r, ts) ==
    IF a.enabled THEN Logged(analyticsLog, RequestEvent(ts, r[1], r[2], r[3]))
    ELSE analyticsLog

\* synpaticoFetch of the client up to `await originalFetch(urlString, enhancedOptions)`
clientFetch(c) ==
    /\ calls[c].pc \in {"idle", "done"}
    /\ inputs < MaxInputs
    /\ inputs' = inputs + 1
    /\ \E url \in URLs, method \in Methods :
        calls' = [calls EXCEPT ![c] =
            IF ~IsTarget(url)
            THEN [IdleCall EXCEPT !.pc = "bypass", !.url = url, !.method = method,
                                  !.sent = <<Request(url, method, None, "caller")>>]
            ELSE [IdleCall EXCEPT !.pc = "sent", !.url = url, !.method = method,
                                  !.sent = <<EnhancedRequest(url, method)>>]]
    /\ UNCHANGED <<registryVars, options, sinceClear, analyticsVars, sends>>

\* the first underlying call of the client resolves: 409 retry, passthrough,
\* marking of the origin and the choice of the packet or the learning path
clientFetchResolves(c) ==
    /\ calls[c].pc = "sent"
    /\ \E r \in Responses :
        LET call == calls[c]
            k == Classify(call, r)
        IN  /\ calls' = [calls EXCEPT ![c] =
                  IF k = "retry"
                  THEN [call EXCEPT !.pc = "resent", !.received = <<r>>,
                                    !.sent = Append(call.sent, RetryRequest(call))]
                  ELSE IF k \in {"text", "json"}
                  THEN [call EXCEPT !.pc = k, !.received = <<r>>]
                  ELSE [call EXCEPT !.pc = "done", !.received = <<r>>,
                                    !.result = Resolved(r)]]
            /\ knownSynpaticoOrigins' =
                  IF k \in {"text", "json", "other"}
                  THEN markOrigin(call.url) ELSE knownSynpaticoOrigins
    /\ UNCHANGED <<structures, requestToStructureId, options, sinceClear,
                   analyticsVars, sends, inputs>>

\* the re-request after a packet of an unknown structure: originalFetch(urlString, fetchOptions)
ClientReissueRequest(call) == Request(call.url, call.method, None, "caller")

\* the packet path after `await response.text()`: the call afterwards.  Nothing
\* of the path is inside a try block: an exception of JSON.parse, of decode or
\* of the analytics sink rejects the promise of synpaticoFetch
ClientPacketStep(call, st, decodedOk) ==
    LET resp == call.received[1]
        packet == JSONparse(resp.body)
    IN  IF JSONparseThrows(resp.body)
        THEN [call EXCEPT !.pc = "done", !.caught = "JSON.parse",
                          !.result = Rejected("SyntaxError")]
        ELSE IF packet.kind = "null"
        THEN [call EXCEPT !.pc = "done", !.caught = "TypeError",
                          !.result = Rejected("TypeError")]
        ELSE IF packet.kind # "packet" \/ packet.structureId \notin DOMAIN structures
        THEN [call EXCEPT !.pc = "resent",
                          !.sent = Append(call.sent, ClientReissueRequest(call))]
        ELSE IF ~decodedOk
        THEN [call EXCEPT !.pc = "done", !.caught = "decode",
                          !.result = Rejected("DecodeError")]
        ELSE IF st.threw
        THEN [call EXCEPT !.pc = "done", !.caught = "onBatch",
                          !.result = Rejected("SinkError")]
        ELSE [call EXCEPT !.pc = "done",
                          !.result = Resolved(JsonResponse(resp,
                              decode(packet, structures[packet.structureId])))]

\* does the packet path reach trackRequestEvent
PacketKnown(resp) ==
    /\ ~JSONparseThrows(resp.body)
    /\ JSONparse(resp.body).kind = "packet"
    /\ JSONparse(resp.body).structureId \in DOMAIN structures

clientPacketResponse(c) ==
    /\ calls[c].pc = "text"
    /\ \E r \in {x \in RequestInputs : x[1]}, outcome \in SinkOutcomes :
        LET call == calls[c]
            resp == call.received[1]
            known == PacketKnown(resp)
            packet == JSONparse(resp.body)
            decodedOk == known /\ ~decodeThrows(packet, structures[packet.structureId])
            reported == IF known THEN ReportedRequest(analytics, r) ELSE analytics
            st == IF decodedOk
                  THEN Stringified(reported, decode(packet, structures[packet.structureId]),
                                   inputs, TRUE, outcome)
                  ELSE [analytics |-> reported, sends |-> sends, threw |-> FALSE]
        IN  /\ calls' = [calls EXCEPT ![c] = ClientPacketStep(call, st, decodedOk)]
            /\ analytics' = st.analytics
            /\ sends' = st.sends
            /\ analyticsLog' = IF known THEN ReportedLog(analytics, r, inputs)
                               ELSE analyticsLog
    /\ UNCHANGED <<registryVars, options, sinceClear, raised, inputs>>

\* the learning path after `await clone.json()`: everything is inside one try block
clientLearn(c) ==
    /\ calls[c].pc = "json"
    /\ \E outcome \in SinkOutcomes :
        LET call == calls[c]
            resp == call.received[1]
            data == JSONparse(resp.body)
            def == createStructureDefinition(data)
            r == <<FALSE, Undefined, Undefined>>
            reported == ReportedRequest(analytics, r)
            st == Stringified(reported, data, inputs, FALSE, outcome)
        IN  IF ~Learns(resp)
            THEN /\ calls' = [calls EXCEPT ![c] =
                        [call EXCEPT !.pc = "done", !.result = Resolved(resp)]]
                 /\ UNCHANGED <<structures, requestToStructureId, analyticsVars, sends>>
            ELSE /\ structures' = MapSet(structures, def.id, def)
                 /\ requestToStructureId' = MapSet(requestToStructureId, call.url, def.id)
                 /\ analytics' = st.analytics
                 /\ sends' = st.sends
                 /\ analyticsLog' = ReportedLog(analytics, r, inputs)
                 /\ UNCHANGED raised
                 /\ calls' = [calls EXCEPT ![c] =
                        IF st.threw
                        THEN [call EXCEPT !.pc = "done", !.caught = "onBatch",
                                          !.result = Resolved(resp)]
                        ELSE IF options.enableAnalytics
                        THEN [call EXCEPT !.pc = "done",
                                          !.result = Resolved(JsonResponse(resp, data))]
                        ELSE [call EXCEPT !.pc = "done", !.result = Resolved(resp)]]
    /\ UNCHANGED <<knownSynpaticoOrigins, options, sinceClear, inputs>>

\* createSynpaticoClient(options): with enableAnalytics the singleton is initialised
\* enabled, with or without a sink
ClientInit ==
    /\ structures = EmptyMap
    /\ requestToStructureId = EmptyMap
    /\ knownSynpaticoOrigins = {}
    /\ options \in ClientOptionSets
    /\ calls = [c \in Slots |-> IdleCall]
    /\ sinceClear = NothingSince
    /\ analytics \in {[enabled |-> TRUE, onBatch |-> sink, batch |-> <<>>,
                       timer |-> options.enableAnalytics, metrics |-> NoMetrics] :
                          sink \in {s \in BOOLEAN : s => options.enableAnalytics}}
    /\ analyticsLog = NoLog
    /\ raised = None

-----------------------------------------------------------------------------
(* Part V: patchGlobals.  A function is a record of the function it calls  *)
(* in the end and the number of bind() layers around it; the unpatch       *)
(* closure of a patch is the record of what it restores.                   *)

\* calls of patchGlobals in one behaviour
MaxPatches == 4

Fn(target) == [target |-> target, bound |-> 0]

\* f.bind(window): a new function that calls f
Bind(f) == [f EXCEPT !.bound = @ + 1]

NoFn == Fn("undefined")

\* () => {}
NoopUnpatch == [id |-> 0, fetch |-> NoFn, open |-> NoFn, send |-> NoFn]

\* const unpatch = () => { ... } of the id-th patch, with what it closes over
Unpatch(id, fetch, open, send) == [id |-> id, fetch |-> fetch, open |-> open, send |-> send]

PatchHandle(isPatched, unpatch) == [isPatched |-> isPatched, unpatch |-> unpatch]

OriginalFetchUnbound == window.fetch

\* const originalWindowFetch = window.fetch.bind(window)
OriginalFetch == Bind(window.fetch)

\* patchGlobals(options) in a browser
patchGlobals ==
    /\ Len(handles) < MaxPatches
    /\ IF window._synpaticoPatched
       THEN /\ handles' = Append(handles, PatchHandle(TRUE, window._synpaticoUnpatch))
            /\ UNCHANGED <<window, XMLHttpRequest, prePatch>>
       ELSE LET id == prePatch.count + 1
                restore == Unpatch(id, OriginalFetch,
                                   IF XMLHttpRequest.defined THEN XMLHttpRequest.open ELSE NoFn,
                                   IF XMLHttpRequest.defined THEN XMLHttpRequest.send ELSE NoFn)
            IN  /\ window' = [fetch |-> Fn("core.fetch"), _synpaticoPatched |-> TRUE,
                              _synpaticoUnpatch |-> restore]
                /\ XMLHttpRequest' =
                      IF XMLHttpRequest.defined
                      THEN [XMLHttpRequest EXCEPT !.open = Fn("synpatico.open"),
                                                  !.send = Fn("synpatico.send")]
                      ELSE XMLHttpRequest
                /\ handles' = Append(handles, PatchHandle(TRUE, restore))
                /\ prePatch' = [count |-> id, fetch |-> window.fetch,
                                open |-> XMLHttpRequest.open, send |-> XMLHttpRequest.send]

\* handle.unpatch()
unpatch ==
    \E i \in 1..Len(handles) :
      LET h == handles[i]
      IN
        /\ window' = [fetch |-> h.unpatch.fetch, _synpaticoPatched |-> FALSE,
                      _synpaticoUnpatch |-> NoopUnpatch]
        /\ XMLHttpRequest' =
              IF h.unpatch.open # NoFn
              THEN [XMLHttpRequest EXCEPT !.open = h.unpatch.open, !.send = h.unpatch.send]
              ELSE XMLHttpRequest
        /\ UNCHANGED <<handles, prePatch>>

PatchInit ==
    /\ window = [fetch |-> Fn("fetch"), _synpaticoPatched |-> FALSE,
                 _synpaticoUnpatch |-> NoopUnpatch]
    /\ XMLHttpRequest \in {[defined |-> TRUE, open |-> Fn("open"), send |-> Fn("send")],
                           [defined |-> FALSE, open |-> NoFn, send |-> NoFn]}
    /\ handles = <<>>
    /\ prePatch = [count |-> 0, fetch |-> NoFn, open |-> NoFn, send |-> NoFn]

-----------------------------------------------------------------------------
(* Part VI: the monkey patch.  patch() installs patchedFetch as the global *)
(* fetch; configure, enable and disable change what shouldOptimize answers *)
(* between the awaits of a call.  The predicates include and exclude are   *)
(* kept by their result, the agent rewrite (agentBase) is not configured   *)
(* and a registry entry is kept as its definition.                         *)

\* sampleRate in percent: 1 and a rate below 1
SampleRates == {100, 50}

MonkeyConfigs == [include : BOOLEAN, exclude : BOOLEAN, sampleRate : SampleRates]

\* DEFAULTS with include: () => true, exclude: () => false
DefaultConfig == [include |-> TRUE, exclude |-> FALSE, sampleRate |-> 100]

MonkeyUrls == {UrlUsers5, UrlUsers9}

\* undefined, as registry.get answers for a key without an entry
NoEntry == [id |-> None, keys |-> <<>>]

NoFetch ==
    [pc |-> "idle", url |-> <<>>, method |-> "", sent |-> <<>>, received |-> <<>>,
     reg |-> NoEntry, result |-> Pending]

\* shouldOptimize(url); unlucky is Math.random() > rate
shouldOptimize(url, unlucky) ==
    IF ~isEnabled THEN FALSE
    ELSE IF CONFIG.exclude THEN FALSE
    ELSE IF CONFIG.include THEN FALSE
    ELSE IF CONFIG.sampleRate < 100 /\ unlucky THEN FALSE
    ELSE TRUE

\* registry.get(endpointKey)
RegistryGet(key) == IF key \in DOMAIN registry THEN registry[key] ELSE NoEntry

\* the responses of Native.fetch: JSON objects with and without the agent header,
\* values-only packets, and bodies parseJsonSafely answers null for
MonkeyResponses ==
    {MakeResponse(m, OK, JSON_CT, JSONstringify(Obj(<<"a">>, <<1>>))) : m \in BOOLEAN}
        \cup {MakeResponse(TRUE, OK, JSON_CT, JSONstringify(Obj(<<"a", "b">>, <<1, 1>>))),
              MakeResponse(FALSE, OK, JSON_CT, JSONstringify(Packet("sidA", <<1>>))),
              MakeResponse(FALSE, OK, JSON_CT, JSONstringify(Packet("sidA", <<1, 1>>))),
              MakeResponse(TRUE, OK, JSON_CT, JSONstringify(NullValue)),
              MakeResponse(TRUE, OK, JSON_CT, Garbage),
              MakeResponse(TRUE, OK, TEXT_CT, Garbage)}

\* configure(cfg): the new CONFIG, and reporter = initReporter(CONFIG)
configure ==
    /\ \E cfg \in MonkeyConfigs : CONFIG' = cfg
    /\ initReporter
    /\ UNCHANGED <<isEnabled, registry, fetchPatched, xhrPatched, fetching, xhr>>

enable ==
    /\ isEnabled' = TRUE
    /\ UNCHANGED <<CONFIG, registry, fetchPatched, xhrPatched, fetching, xhr>>

disable ==
    /\ isEnabled' = FALSE
    /\ UNCHANGED <<CONFIG, registry, fetchPatched, xhrPatched, fetching, xhr>>

\* patch(): installFetch() and installXHR()
monkeyPatch ==
    /\ fetchPatched' = TRUE
    /\ window' = IF fetchPatched THEN window
                 ELSE [window EXCEPT !.fetch = Fn("patchedFetch")]
    /\ xhrPatched' = (xhrPatched \/ XMLHttpRequest.defined)
    /\ XMLHttpRequest' =
          IF xhrPatched \/ ~XMLHttpRequest.defined THEN XMLHttpRequest
          ELSE [XMLHttpRequest EXCEPT !.open = Fn("monkey.open"), !.send = Fn("monkey.send")]
    /\ UNCHANGED <<isEnabled, CONFIG, registry, fetching, xhr, handles, prePatch>>

\* unpatch(): the globals become the Native handles taken when the module was loaded
monkeyUnpatch ==
    /\ fetchPatched' = FALSE
    /\ window' = IF fetchPatched THEN [window EXCEPT !.fetch = Bind(Fn("fetch"))]
                 ELSE window
    /\ xhrPatched' = FALSE
    /\ XMLHttpRequest' =
          IF xhrPatched /\ XMLHttpRequest.defined
          THEN [XMLHttpRequest EXCEPT !.open = Fn("open"), !.send = Fn("send")]
          ELSE XMLHttpRequest
    /\ UNCHANGED <<isEnabled, CONFIG, registry, fetching, xhr, handles, prePatch>>

\* patchedFetch(input, init) up to `await Native.fetch(finalInput, reqInit)`;
\* the method of init is not read, the calls are GETs
patchedFetch ==
    /\ fetchPatched
    /\ fetching.pc \in {"idle", "done"}
    /\ \E url \in MonkeyUrls, unlucky \in BOOLEAN :
        LET reg == RegistryGet(registryKey(url))
            hint == IF shouldOptimize(url, unlucky) /\ reg # NoEntry THEN reg.id ELSE None
        IN  fetching' = [NoFetch EXCEPT !.pc = "sent", !.url = url, !.method = "GET",
                                        !.reg = reg,
                                        !.sent = <<Request(url, "GET", hint, "enhanced")>>]
    /\ UNCHANGED <<isEnabled, CONFIG, registry, fetchPatched, xhrPatched, xhr>>

\* Native.fetch resolves; parseJsonSafely reads the body next
nativeFetchResolves ==
    /\ fetching.pc = "sent"
    /\ \E r \in MonkeyResponses :
        fetching' = [fetching EXCEPT !.pc = "parsing", !.received = <<r>>]
    /\ UNCHANGED <<isEnabled, CONFIG, registry, fetchPatched, xhrPatched, xhr>>

nativeFetchRejects ==
    /\ fetching.pc = "sent"
    /\ fetching' = [fetching EXCEPT !.pc = "done", !.result = Rejected(NetworkError)]
    /\ UNCHANGED <<isEnabled, CONFIG, registry, fetchPatched, xhrPatched, xhr>>

\* parseJsonSafely(res) answers null: no JSON content type, no JSON text, or null
ParsesToNull(res) ==
    \/ res.ct # JSON_CT
    \/ JSONparseThrows(res.body)
    \/ JSONparse(res.body).kind = "null"

\* new Response(JSON.stringify(value), { status, statusText, headers: res.headers })
Rewrapped(res, value) == MakeResponse(res.marker, res.status, res.ct, JSONstringify(value))

\* patchedFetch after `await parseJsonSafely(res)`: the packet path, the learning
\* phase and the wrapping of the value.  The flush handleDecoded queues runs before
\* anything was read through the tracker and posts nothing.
fetchParsed ==
    /\ fetching.pc = "parsing"
    /\ \E unlucky \in BOOLEAN :
        LET res == fetching.received[1]
            maybeJson == JSONparse(res.body)
            key == registryKey(fetching.url)
            \* reg || registry.get(endpointKey) || registry.get(packet.structureId):
            \* the keys of the registry are endpoints, the last lookup finds nothing
            useReg == IF fetching.reg # NoEntry THEN fetching.reg ELSE RegistryGet(key)
            learns == res.marker \/ shouldOptimize(fetching.url, unlucky)
            def == createStructureDefinition(maybeJson)
        IN  IF ParsesToNull(res)
            THEN /\ fetching' = [fetching EXCEPT !.pc = "done", !.result = Resolved(res)]
                 /\ UNCHANGED registry
            ELSE IF maybeJson.kind = "packet"
            THEN /\ fetching' = [fetching EXCEPT !.pc = "done", !.result =
                        IF useReg = NoEntry THEN Resolved(Rewrapped(res, maybeJson))
                        ELSE IF decodeThrows(maybeJson, useReg) THEN Rejected("DecodeError")
                        ELSE Resolved(Rewrapped(res, decode(maybeJson, useReg)))]
                 /\ UNCHANGED registry
            ELSE /\ registry' = IF learns THEN MapSet(registry, key, def) ELSE registry
                 /\ fetching' = [fetching EXCEPT !.pc = "done", !.result =
                        IF learns \/ key \in DOMAIN registry
                        THEN Resolved(Rewrapped(res, maybeJson))
                        ELSE Rejected("Error")]
    /\ UNCHANGED <<isEnabled, CONFIG, fetchPatched, xhrPatched, xhr>>

\* the module is loaded: enabled, the default CONFIG, nothing patched
NoXhr == [pc |-> "idle", url |-> <<>>, sent |-> <<>>]

\* the responses an XMLHttpRequest loads; createStructureDefinition(null) is
\* left to the codec, so the JSON text null is not among them
XhrResponses == {r \in MonkeyResponses : JSONparseThrows(r.body) \/ JSONparse(r.body).kind # "null"}

\* xhr.open(method, url) and the patched send(body) up to Native.xhrSend; send
\* does not read the method, the requests are GETs
xhrSend ==
    /\ xhrPatched
    /\ xhr.pc = "idle"
    /\ \E url \in MonkeyUrls, unlucky \in BOOLEAN :
        LET reg == RegistryGet(registryKey(url))
            hint == IF reg # NoEntry /\ shouldOptimize(url, unlucky) THEN reg.id ELSE None
        IN  xhr' = [NoXhr EXCEPT !.pc = "sent", !.url = url,
                                 !.sent = <<Request(url, "GET", hint, "enhanced")>>]
    /\ UNCHANGED <<isEnabled, CONFIG, registry, fetchPatched, xhrPatched, fetching>>

\* the load listener of send: learning, best effort; the request is finished
xhrLoad ==
    /\ xhr.pc = "sent"
    /\ \E r \in XhrResponses, unlucky \in BOOLEAN :
        LET json == JSONparse(r.body)
            key == registryKey(xhr.url)
            learns == /\ r.ct = JSON_CT
                      /\ ~JSONparseThrows(r.body)
                      /\ json.kind # "packet"
                      /\ shouldOptimize(xhr.url, unlucky)
        IN  /\ xhr' = NoXhr
            /\ registry' = IF learns THEN MapSet(registry, key, createStructureDefinition(json))
                           ELSE registry
    /\ UNCHANGED <<isEnabled, CONFIG, fetchPatched, xhrPatched, fetching>>

MonkeyInit ==
    /\ isEnabled = TRUE
    /\ CONFIG = DefaultConfig
    /\ registry = EmptyMap
    /\ fetchPatched = FALSE
    /\ xhrPatched = FALSE
    /\ fetching = NoFetch
    /\ xhr = NoXhr

-----------------------------------------------------------------------------
(* Specification of createCore with one call at a time *)

Next ==
    \/ \E c \in SeqSlots :
        \/ synpaticoFetch(c) /\ UNCHANGED <<telemetryVars, patchVars, monkeyVars>>
        \/ originalFetchResolves(c) /\ UNCHANGED <<telemetryVars, patchVars, monkeyVars>>
        \/ bypassResolves(c) /\ UNCHANGED <<telemetryVars, patchVars, monkeyVars>>
        \/ secondFetchResolves(c) /\ UNCHANGED <<telemetryVars, patchVars, monkeyVars>>
        \/ originalFetchRejects(c) /\ UNCHANGED <<telemetryVars, patchVars, monkeyVars>>
        \/ handleOptimizedPacketResponse(c) /\ UNCHANGED <<telemetryVars, patchVars, monkeyVars>>
        \/ learnFromJsonResponse(c) /\ UNCHANGED <<telemetryVars, patchVars, monkeyVars>>
        \/ bodyReadRejects(c) /\ UNCHANGED <<telemetryVars, patchVars, monkeyVars>>
    \/ clearCache /\ UNCHANGED <<telemetryVars, patchVars, monkeyVars>>

\* the state of every part after its construction
TelemetryInit ==
    /\ PathsInit
    /\ WorkerInitState
    /\ AnalyticsInitState
    /\ ProxyInit
    /\ sends = NoSends
    /\ inputs = 0

CoreIdle ==
    /\ structures = EmptyMap
    /\ requestToStructureId = EmptyMap
    /\ knownSynpaticoOrigins = {}
    /\ options = [isTargetUrl |-> "none", enableLifecycle |-> TRUE, lifecycle |-> "none"]
    /\ calls = [c \in Slots |-> IdleCall]
    /\ sinceClear = NothingSince

PatchIdle ==
    /\ PatchInit
    /\ XMLHttpRequest.defined
    /\ MonkeyInit

\* createCore is constructed; nothing else of the client has run
CoreStart == Init /\ TelemetryInit /\ PatchIdle

Spec == CoreStart /\ [][Next]_vars

-----------------------------------------------------------------------------
(* Specification of createCore with two calls in flight: every await of    *)
(* one call can be followed by a step of the other.  The callers fetch one *)
(* endpoint with GET; the server answers with the responses below.         *)

\* what the server answers a first underlying call with
ConcurrentResponses ==
    {MakeResponse(TRUE, OK, JSON_CT, JSONstringify(Obj(<<"a">>, <<1>>))),
     MakeResponse(TRUE, OK, JSON_CT, JSONstringify(Obj(<<"a", "b">>, <<1, 1>>))),
     MakeResponse(TRUE, OK, PACKET_CT, JSONstringify(Packet("sidA", <<1>>))),
     MakeResponse(TRUE, OK, PACKET_CT, JSONstringify(Packet("sidA", <<1, 1>>))),
     MakeResponse(TRUE, OK, PACKET_CT, Garbage),
     MakeResponse(TRUE, CONFLICT, JSON_CT, PlainBody(JSON_CT)),
     MakeResponse(FALSE, CONFLICT, JSON_CT, PlainBody(JSON_CT))}

\* what the server answers a retry or a reissue with
ConcurrentSecondResponses ==
    {MakeResponse(TRUE, OK, JSON_CT, PlainBody(JSON_CT)),
     MakeResponse(TRUE, CONFLICT, JSON_CT, PlainBody(JSON_CT)),
     MakeResponse(TRUE, OK, PACKET_CT, PlainBody(PACKET_CT))}

ConcurrentNext ==
    \/ \E c \in Slots :
        \/ /\ synpaticoFetch(c)
           /\ calls'[c].url = UrlUsers5
           /\ calls'[c].method = "GET"
           /\ UNCHANGED <<telemetryVars, patchVars, monkeyVars>>
        \/ /\ originalFetchResolves(c)
           /\ calls'[c].received[1] \in ConcurrentResponses
           /\ UNCHANGED <<telemetryVars, patchVars, monkeyVars>>
        \/ /\ secondFetchResolves(c)
           /\ calls'[c].received[Len(calls'[c].received)] \in ConcurrentSecondResponses
           /\ UNCHANGED <<telemetryVars, patchVars, monkeyVars>>
        \/ handleOptimizedPacketResponse(c) /\ UNCHANGED <<telemetryVars, patchVars, monkeyVars>>
        \/ learnFromJsonResponse(c) /\ UNCHANGED <<telemetryVars, patchVars, monkeyVars>>
    \/ clearCache /\ UNCHANGED <<telemetryVars, patchVars, monkeyVars>>

\* createCore is constructed without an isTargetUrl predicate; the hooks of the
\* request and the response phase are not enabled together with the others
ConcurrentStart ==
    /\ Init
    /\ options.isTargetUrl = "none"
    /\ options.lifecycle = "hooks" => ~options.enableLifecycle
    /\ TelemetryInit
    /\ PatchIdle

SpecConcurrent == ConcurrentStart /\ [][ConcurrentNext]_vars

-----------------------------------------------------------------------------
(* Specification of the telemetry transports: the reporter, the usage      *)
(* worker and the analytics worker, which flushes when its buffer is full  *)
(* and when its timer fires; every transmission may resolve or be rejected *)

TelemetryNext ==
    \/ initReporter /\ UNCHANGED <<coreVars, patchVars, monkeyVars, workerVars, analyticsVars, proxyVars>>
    \/ post /\ UNCHANGED <<coreVars, patchVars, monkeyVars, workerVars, analyticsVars, proxyVars>>
    \/ usageFlush /\ UNCHANGED <<coreVars, patchVars, monkeyVars, workerVars, analyticsVars, proxyVars>>
    \/ reporterFlush /\ UNCHANGED <<coreVars, patchVars, monkeyVars, workerVars, analyticsVars, proxyVars>>
    \/ workerInit /\ UNCHANGED <<coreVars, patchVars, monkeyVars, pathVars, analyticsVars, proxyVars>>
    \/ workerEvents /\ UNCHANGED <<coreVars, patchVars, monkeyVars, pathVars, analyticsVars, proxyVars>>
    \/ workerTimerFires /\ UNCHANGED <<coreVars, patchVars, monkeyVars, pathVars, analyticsVars, proxyVars>>
    \/ transportResolves /\ UNCHANGED <<coreVars, patchVars, monkeyVars, analyticsVars, proxyVars>>
    \/ transportRejects /\ UNCHANGED <<coreVars, patchVars, monkeyVars, analyticsVars, proxyVars>>

\* the modules are loaded; no request is made and nothing is patched
TelemetryStart == CoreIdle /\ PatchIdle /\ TelemetryInit

SpecTelemetry == TelemetryStart /\ [][TelemetryNext]_vars

-----------------------------------------------------------------------------
(* Specification of the two aggregators: the analytics worker and the      *)
(* analytics singleton without a sink; transmissions stay in flight        *)

AnalyticsNext ==
    \/ workerInit /\ UNCHANGED <<coreVars, patchVars, monkeyVars, pathVars, analyticsVars, proxyVars>>
    \/ workerEvents /\ UNCHANGED <<coreVars, patchVars, monkeyVars, pathVars, analyticsVars, proxyVars>>
    \/ workerFlush /\ UNCHANGED <<coreVars, patchVars, monkeyVars, pathVars, analyticsVars, proxyVars>>
    \/ workerTimerFires /\ UNCHANGED <<coreVars, patchVars, monkeyVars, pathVars, analyticsVars, proxyVars>>
    \/ workerReset /\ UNCHANGED <<coreVars, patchVars, monkeyVars, pathVars, analyticsVars, proxyVars>>
    \/ setEnabled /\ UNCHANGED <<coreVars, patchVars, monkeyVars, pathVars, workerVars, proxyVars>>
    \/ trackPropertyAccess /\ UNCHANGED <<coreVars, patchVars, monkeyVars, pathVars, workerVars, proxyVars>>
    \/ trackRequest /\ UNCHANGED <<coreVars, patchVars, monkeyVars, pathVars, workerVars, proxyVars>>
    \/ flushNow /\ UNCHANGED <<coreVars, patchVars, monkeyVars, pathVars, workerVars, proxyVars>>
    \/ analyticsReset /\ UNCHANGED <<coreVars, patchVars, monkeyVars, pathVars, workerVars, proxyVars>>

SpecAnalytics == TelemetryStart /\ [][AnalyticsNext]_vars

-----------------------------------------------------------------------------
(* Specification of the batching of the two aggregators: the worker with   *)
(* its transport settling, the singleton with and without a sink           *)

BatchingNext ==
    \/ workerInit /\ UNCHANGED <<coreVars, patchVars, monkeyVars, pathVars, analyticsVars, proxyVars>>
    \/ workerEvents /\ UNCHANGED <<coreVars, patchVars, monkeyVars, pathVars, analyticsVars, proxyVars>>
    \/ workerTimerFires /\ UNCHANGED <<coreVars, patchVars, monkeyVars, pathVars, analyticsVars, proxyVars>>
    \/ transportResolves /\ UNCHANGED <<coreVars, patchVars, monkeyVars, analyticsVars, proxyVars>>
    \/ transportRejects /\ UNCHANGED <<coreVars, patchVars, monkeyVars, analyticsVars, proxyVars>>
    \/ analyticsInit /\ UNCHANGED <<coreVars, patchVars, monkeyVars, pathVars, workerVars, proxyVars>>
    \/ trackPropertyAccess /\ UNCHANGED <<coreVars, patchVars, monkeyVars, pathVars, workerVars, proxyVars>>

SpecBatching == TelemetryStart /\ [][BatchingNext]_vars

-----------------------------------------------------------------------------
(* Specification of the worker that stays enabled, with time passing: a    *)
(* timeout that was set expires and a transmission that was started        *)
(* settles; events arrive or not, and nobody asks for a flush              *)

workerConfigured ==
    /\ workerInit
    /\ worker'.enabled
    /\ UNCHANGED <<coreVars, patchVars, monkeyVars, pathVars, analyticsVars, proxyVars>>

workerReceives ==
    workerEvents /\ UNCHANGED <<coreVars, patchVars, monkeyVars, pathVars, analyticsVars, proxyVars>>

timeoutExpires ==
    workerTimerFires /\ UNCHANGED <<coreVars, patchVars, monkeyVars, pathVars, analyticsVars, proxyVars>>

transmissionSettles ==
    /\ transportResolves \/ transportRejects
    /\ UNCHANGED <<coreVars, patchVars, monkeyVars, analyticsVars, proxyVars>>

WorkerLiveNext ==
    \/ workerConfigured
    \/ workerReceives
    \/ timeoutExpires
    \/ transmissionSettles

SpecWorkerLive ==
    /\ TelemetryStart
    /\ [][WorkerLiveNext]_vars
    /\ WF_vars(timeoutExpires)
    /\ WF_vars(transmissionSettles)

-----------------------------------------------------------------------------
(* Specification of the tracking proxy reporting to the analytics singleton *)

ProxyNext ==
    \/ analyticsInit /\ UNCHANGED <<coreVars, patchVars, monkeyVars, pathVars, workerVars, proxyVars>>
    \/ setEnabled /\ UNCHANGED <<coreVars, patchVars, monkeyVars, pathVars, workerVars, proxyVars>>
    \/ flushNow /\ UNCHANGED <<coreVars, patchVars, monkeyVars, pathVars, workerVars, proxyVars>>
    \/ analyticsTimerFires /\ UNCHANGED <<coreVars, patchVars, monkeyVars, pathVars, workerVars, proxyVars>>
    \/ analyticsReset /\ UNCHANGED <<coreVars, patchVars, monkeyVars, pathVars, workerVars, proxyVars>>
    \/ read /\ UNCHANGED <<coreVars, patchVars, monkeyVars, pathVars, workerVars>>
    \/ wrapRoot /\ held'.prefix = 0 /\ UNCHANGED <<coreVars, patchVars, monkeyVars, pathVars, workerVars>>

SpecProxy == TelemetryStart /\ [][ProxyNext]_vars

-----------------------------------------------------------------------------
(* Specification of the traps of the tracking proxy: reads, existence      *)
(* checks, writes, descriptor lookups and key enumerations, on roots with  *)
(* and without a rootPath and on a proxy of a proxy; the singleton is      *)
(* enabled and has no sink                                                 *)

TrapsNext ==
    \/ wrapRoot /\ UNCHANGED <<coreVars, patchVars, monkeyVars, pathVars, workerVars>>
    \/ wrapAgain /\ UNCHANGED <<coreVars, patchVars, monkeyVars, pathVars, workerVars>>
    \/ read /\ UNCHANGED <<coreVars, patchVars, monkeyVars, pathVars, workerVars>>
    \/ probe /\ UNCHANGED <<coreVars, patchVars, monkeyVars, pathVars, workerVars>>
    \/ ownKeys /\ UNCHANGED <<coreVars, patchVars, monkeyVars, pathVars, workerVars>>

SpecTraps == TelemetryStart /\ [][TrapsNext]_vars

-----------------------------------------------------------------------------
(* Specification of createSynpaticoClient with one call at a time          *)

ClientNext ==
    \/ \E c \in SeqSlots :
        \/ clientFetch(c) /\ UNCHANGED <<patchVars, monkeyVars, pathVars, workerVars, proxyVars>>
        \/ clientFetchResolves(c) /\ UNCHANGED <<patchVars, monkeyVars, pathVars, workerVars, proxyVars>>
        \/ bypassResolves(c) /\ UNCHANGED <<telemetryVars, patchVars, monkeyVars>>
        \/ secondFetchResolves(c) /\ UNCHANGED <<telemetryVars, patchVars, monkeyVars>>
        \/ originalFetchRejects(c) /\ UNCHANGED <<telemetryVars, patchVars, monkeyVars>>
        \/ clientPacketResponse(c) /\ UNCHANGED <<patchVars, monkeyVars, pathVars, workerVars, proxyVars>>
        \/ clientLearn(c) /\ UNCHANGED <<patchVars, monkeyVars, pathVars, workerVars, proxyVars>>
        \/ bodyReadRejects(c) /\ UNCHANGED <<telemetryVars, patchVars, monkeyVars>>
    \/ clearCache /\ UNCHANGED <<telemetryVars, patchVars, monkeyVars>>
    \/ analyticsTimerFires /\ UNCHANGED <<coreVars, patchVars, monkeyVars, pathVars, workerVars, proxyVars>>

ClientStart ==
    /\ ClientInit
    /\ PathsInit
    /\ WorkerInitState
    /\ ProxyInit
    /\ sends = NoSends
    /\ inputs = 0
    /\ PatchIdle

SpecClient == ClientStart /\ [][ClientNext]_vars

-----------------------------------------------------------------------------
(* Specification of the monkey patch with one fetch at a time              *)

MonkeyNext ==
    \/ configure /\ UNCHANGED <<coreVars, patchVars, workerVars, analyticsVars, proxyVars>>
    \/ enable /\ UNCHANGED <<coreVars, telemetryVars, patchVars>>
    \/ disable /\ UNCHANGED <<coreVars, telemetryVars, patchVars>>
    \/ monkeyPatch /\ UNCHANGED <<coreVars, telemetryVars>>
    \/ monkeyUnpatch /\ UNCHANGED <<coreVars, telemetryVars>>
    \/ patchedFetch /\ UNCHANGED <<coreVars, telemetryVars, patchVars>>
    \/ nativeFetchResolves /\ UNCHANGED <<coreVars, telemetryVars, patchVars>>
    \/ nativeFetchRejects /\ UNCHANGED <<coreVars, telemetryVars, patchVars>>
    \/ fetchParsed /\ UNCHANGED <<coreVars, telemetryVars, patchVars>>
    \/ xhrSend /\ UNCHANGED <<coreVars, telemetryVars, patchVars>>
    \/ xhrLoad /\ UNCHANGED <<coreVars, telemetryVars, patchVars>>

SpecMonkey == TelemetryStart /\ [][MonkeyNext]_vars

-----------------------------------------------------------------------------
(* Specification of patchGlobals                                           *)

PatchNext ==
    \/ patchGlobals /\ UNCHANGED <<coreVars, telemetryVars, monkeyVars>>
    \/ unpatch /\ UNCHANGED <<coreVars, telemetryVars, monkeyVars>>

\* the page before patchGlobals is called, with or without XMLHttpRequest
PatchStart == CoreIdle /\ PatchInit /\ MonkeyInit /\ TelemetryInit

SpecPatch == PatchStart /\ [][PatchNext]_vars

-----------------------------------------------------------------------------
(* Properties of createCore *)

HooksConfigured == options.lifecycle = "hooks"

\* an agent-marked JSON response whose body is a plain object
IsLearnable(resp) ==
    /\ resp.marker
    /\ resp.ct = JSON_CT
    /\ resp.body.valid
    /\ resp.body.value.kind = "object"

\* the step in which slot c finishes learnFromJsonResponse having read the body
LearnFinishes(c) ==
    /\ calls[c].pc = "json"
    /\ calls'[c].pc = "done"
    /\ calls'[c].caught # "body"

\* C1 (LEARN): a call classified as LEARN whose body is a plain object resolves
\* with a body deep-equal to the original one, or with the output of
\* transformDecoded (called with wasOptimized = false) when the hook is
\* configured and returns; onLearnedStructure is emitted once when configured;
\* the step adds exactly the entry url -> codec id to the registry.
C1_LearnReturnsBodyAndRegisters ==
    [][\A c \in Slots :
        (LearnFinishes(c) /\ IsLearnable(calls[c].received[1])) =>
            LET resp == calls[c].received[1]
                data == resp.body.value
                id == createStructureDefinition(data).id
                ret == calls'[c].result
            IN  /\ ret.state = "resolved"
                /\ ret.response.body.valid
                /\ ret.response.status = resp.status
                /\ IF HooksConfigured /\ calls'[c].caught = None
                   THEN ret.response.body.value = transformDecoded(id, FALSE, data)
                   ELSE ret.response.body.value = data
                /\ calls'[c].learned = (IF HooksConfigured THEN 1 ELSE 0)
                /\ requestToStructureId' = MapSet(requestToStructureId, calls[c].url, id)
                /\ id \in DOMAIN structures'
                /\ structures'[id].id = id
                /\ Len(calls'[c].sent) = 1
      ]_vars

\* a call has learned {a: 2} and returned the transformed value
C1_Witness ==
    /\ calls["c1"].pc = "done"
    /\ calls["c1"].url = UrlUsers5
    /\ calls["c1"].learned = 1
    /\ calls["c1"].caught = None
    /\ calls["c1"].result.response.body.value =
          transformDecoded("sidA", FALSE, Obj(<<"a">>, <<2>>))
    /\ UrlUsers5 \in DOMAIN requestToStructureId
    /\ requestToStructureId[UrlUsers5] = "sidA"

\* the step in which slot c starts a call
StartsCall(c) ==
    /\ calls[c].pc \in {"idle", "done"}
    /\ calls'[c].pc \in {"sent", "bypass"}

\* the step in which the first underlying call of slot c resolves
FirstResponseArrives(c) ==
    /\ calls[c].pc \in {"sent", "bypass"}
    /\ Len(calls'[c].received) = 1

NoHeader(call) == \A i \in 1..Len(call.sent) : call.sent[i].acceptId = None

\* C2 as stated: once a URL is in the registry (learned, no reset since), every later
\* GET to it is sent with the X-Synpatico-Accept-ID header equal to the cached id.
C2_EveryLaterGetIsHinted ==
    [][\A c \in Slots :
        (/\ StartsCall(c)
         /\ calls'[c].method = "GET"
         /\ calls'[c].url \in sinceClear.urls
         /\ calls'[c].url \in DOMAIN requestToStructureId) =>
            calls'[c].sent[1].acceptId = requestToStructureId[calls'[c].url]
      ]_vars

\* C2 amended: a later GET to a registered URL carries the cached id exactly when
\* the URL parses and its origin is in the known-origin set; otherwise it is sent
\* without the header.
C2_HintEqualsCachedId ==
    [][\A c \in Slots :
        (/\ StartsCall(c)
         /\ calls'[c].method = "GET"
         /\ calls'[c].url \in DOMAIN requestToStructureId) =>
            LET url == calls'[c].url
                known == UrlParses(url) /\ UrlOrigin(url) \in knownSynpaticoOrigins
            IN  /\ calls'[c].pc = "sent"
                /\ Len(calls'[c].sent) = 1
                /\ calls'[c].sent[1].url = url
                /\ known => calls'[c].sent[1].acceptId = requestToStructureId[url]
                /\ ~known => calls'[c].sent[1].acceptId = None
      ]_vars

\* a GET to a learned URL is in flight with the cached id as its header
C2_Witness ==
    /\ calls["c1"].pc = "sent"
    /\ calls["c1"].method = "GET"
    /\ calls["c1"].url = UrlUsers5
    /\ UrlUsers5 \in DOMAIN requestToStructureId
    /\ requestToStructureId[UrlUsers5] = "sidAB"
    /\ calls["c1"].sent[1].acceptId = "sidAB"

\* the call of slot c was hinted and its first response was a 409
HintedConflict(call) ==
    /\ Len(call.received) >= 1
    /\ call.received[1].status = CONFLICT
    /\ Len(call.sent) >= 1
    /\ call.sent[1].acceptId # None

\* C3: a hinted call answered 409 issues exactly one retry of the same URL without
\* the header and resolves with the retry's response as it is (or rejects with the
\* retry's rejection): no second retry, no decode, no learning, no registry write.
C3_SingleUnhintedRetry ==
    /\ [](\A c \in Slots :
            LET call == calls[c]
            IN  HintedConflict(call) =>
                  /\ call.pc \in {"resent", "done"}
                  /\ Len(call.sent) = 2
                  /\ call.sent[2].url = call.url
                  /\ call.sent[2].method = call.method
                  /\ call.sent[2].acceptId = None
                  /\ call.learned = 0
                  /\ call.decoded = 0
                  /\ call.pc = "done" =>
                        \/ Len(call.received) = 2 /\ call.result = Resolved(call.received[2])
                        \/ Len(call.received) = 1 /\ call.result = Rejected(NetworkError))
    /\ [][\A c \in Slots :
            (calls[c].pc = "resent" /\ calls'[c] # calls[c]) =>
                /\ calls'[c].pc = "done"
                /\ calls'[c].sent = calls[c].sent
                /\ UNCHANGED registryVars
         ]_vars

\* learn, hinted 409, retry: the retry's agent-marked JSON response is returned
C3_Witness ==
    /\ calls["c1"].pc = "done"
    /\ HintedConflict(calls["c1"])
    /\ Len(calls["c1"].sent) = 2
    /\ calls["c1"].sent[1].acceptId = "sidA"
    /\ calls["c1"].result = Resolved(MakeResponse(TRUE, OK, JSON_CT, PlainBody(JSON_CT)))
    /\ requestToStructureId[calls["c1"].url] = "sidA"

\* C4 as stated: a first response without the agent marker is returned as it is,
\* with no further call, no hook and no change of the registry or the origins.
C4_UnmarkedIsPassthrough ==
    [][\A c \in Slots :
        (FirstResponseArrives(c) /\ ~calls'[c].received[1].marker) =>
            /\ UNCHANGED registryVars
            /\ calls'[c].pc = "done"
            /\ calls'[c].result = Resolved(calls'[c].received[1])
            /\ Len(calls'[c].sent) = 1
            /\ calls'[c].learned = 0
            /\ calls'[c].decoded = 0
      ]_vars

\* C5: the registry holds nothing but what was registered since the last
\* clearCache, and a call to a URL not learned since then carries no header.
C5_ClearCacheForgetsEverything ==
    [][/\ DOMAIN requestToStructureId' \subseteq sinceClear'.urls
       /\ DOMAIN structures' \subseteq sinceClear'.ids
       /\ knownSynpaticoOrigins' \subseteq sinceClear'.origins
       /\ \A c \in Slots :
            (StartsCall(c) /\ calls'[c].url \notin sinceClear.urls) => NoHeader(calls'[c])
      ]_vars

\* clearCache has run after a call learned a structure
C5_Witness ==
    /\ calls["c1"].pc = "done"
    /\ Len(calls["c1"].received) = 1
    /\ IsLearnable(calls["c1"].received[1])
    /\ calls["c1"].learned = 1
    /\ structures = EmptyMap
    /\ requestToStructureId = EmptyMap
    /\ knownSynpaticoOrigins = {}

\* C6 (DECODE): a packet whose structureId is registered, which the codec accepts
\* and whose hooks return, needs one underlying call, emits onPacketDecoded once
\* (when configured) and resolves with an application/json response whose body is
\* the codec's decode (through transformDecoded with wasOptimized = true).
C6_DecodeReturnsDecodedJson ==
    [][\A c \in Slots :
        LET resp == calls[c].received[1]
            packet == resp.body.value
            sid == packet.structureId
        IN  (/\ calls[c].pc = "text"
             /\ calls'[c].pc # "text"
             /\ calls'[c].caught = None
             /\ resp.body.valid
             /\ packet.kind = "packet"
             /\ sid \in DOMAIN structures
             /\ Len(packet.vals) = Len(structures[sid].keys)) =>
                LET value == decode(packet, structures[sid])
                    out == IF HooksConfigured THEN transformDecoded(sid, TRUE, value)
                           ELSE value
                IN  /\ calls'[c].pc = "done"
                    /\ Len(calls'[c].sent) = 1
                    /\ calls'[c].decoded = (IF HooksConfigured THEN 1 ELSE 0)
                    /\ calls'[c].result =
                          Resolved(MakeResponse(resp.marker, resp.status, JSON_CT,
                                                JSONstringify(out)))
      ]_vars

\* a hinted call got a packet for the learned shape and returned the decoded object
C6_Witness ==
    /\ calls["c1"].pc = "done"
    /\ Len(calls["c1"].sent) = 1
    /\ calls["c1"].sent[1].acceptId = "sidA"
    /\ Len(calls["c1"].received) = 1
    /\ calls["c1"].received[1].ct = PACKET_CT
    /\ calls["c1"].decoded = 1
    /\ calls["c1"].result.response.ct = JSON_CT
    /\ calls["c1"].result.response.body.value =
          transformDecoded("sidA", TRUE, Obj(<<"a">>, <<2>>))

\* C7 as stated: the promise rejects only with the rejection of an underlying call
\* (or of reading its body).
C7_RejectsOnlyOnNetworkFailure ==
    \A c \in Slots :
        calls[c].result.state = "rejected" => calls[c].result.error = NetworkError

\* C8: no underlying call of a non-GET call carries the header.
C8_NonGetNeverHinted ==
    \A c \in Slots : calls[c].method # "GET" => NoHeader(calls[c])

\* a POST is in flight to a URL that is registered and whose origin is known
C8_Witness ==
    /\ calls["c1"].pc = "sent"
    /\ calls["c1"].method = "POST"
    /\ calls["c1"].url \in DOMAIN requestToStructureId
    /\ UrlOrigin(calls["c1"].url) \in knownSynpaticoOrigins

\* C9 as stated: no step of a non-GET call changes the registry or the origins,
\* and the call ends after one underlying call with the response as it arrived.
C9_NonGetIsPassedThrough ==
    /\ [][\A c \in Slots :
            (calls[c].method = "POST" /\ calls'[c] # calls[c] /\ ~StartsCall(c)) =>
                UNCHANGED registryVars
         ]_vars
    /\ [](\A c \in Slots :
            (calls[c].method = "POST" /\ calls[c].pc = "done") =>
                /\ Len(calls[c].sent) = 1
                /\ calls[c].result.state = "resolved" =>
                      calls[c].result.response = calls[c].received[1])

SameRoute(u, v) == registryKey(u) = registryKey(v)

\* C10 as stated: URLs differing only in the query share one registry entry, and a
\* GET to one carries the id learned from the other.
C10_QueryVariantsShareEntry ==
    [][/\ \A u, v \in DOMAIN requestToStructureId' : SameRoute(u, v) => u = v
       /\ \A c \in Slots :
            (/\ StartsCall(c)
             /\ calls'[c].method = "GET"
             /\ UrlParses(calls'[c].url)
             /\ UrlOrigin(calls'[c].url) \in knownSynpaticoOrigins
             /\ \E u \in DOMAIN requestToStructureId : SameRoute(u, calls'[c].url)) =>
                \E u \in DOMAIN requestToStructureId :
                    /\ SameRoute(u, calls'[c].url)
                    /\ calls'[c].sent[1].acceptId = requestToStructureId[u]
      ]_vars

\* the predicate is configured and false for the URL of the call
NotTargeted(call) ==
    /\ call.url # <<>>
    /\ options.isTargetUrl = "apiOnly"
    /\ ~isTargetUrl(call.url)

C20_UnmarkedFirstResponseIsTerminal ==
    \A c \in Slots :
        (/\ Len(calls[c].received) >= 1
         /\ ~calls[c].received[1].marker) =>
            /\ calls[c].pc = "done"
            /\ Len(calls[c].sent) = 1
            /\ calls[c].result = Resolved(calls[c].received[1])

-----------------------------------------------------------------------------
(* C12: the paths of one (structure, endpoint) bucket are capped           *)

\* how often the message lists the path p
Occurrences(ps, p) == Cardinality({i \in 1..Len(ps) : ps[i] = p})

Saturated(bucket) == Cardinality(DOMAIN bucket) >= MAX_PATHS_PER_BUCKET

\* C12: no bucket of the usage worker ever holds more than MAX_PATHS_PER_BUCKET
\* distinct paths; a message for a bucket that is full adds no path to it,
\* while every path the bucket already holds is incremented by the number of
\* times the message lists it.
C12_BucketPathsCapped ==
    /\ \A key \in DOMAIN buckets :
          Cardinality(DOMAIN buckets[key]) <= MAX_PATHS_PER_BUCKET
    /\ \A key \in DOMAIN buckets : \A msg \in TelemetryMsgs(0) :
          LET bucket == buckets[key]
              after == AddPaths(bucket, MsgPaths(msg))
          IN  Saturated(bucket) =>
                /\ DOMAIN after = DOMAIN bucket
                /\ \A p \in DOMAIN bucket :
                      after[p] = bucket[p] + Occurrences(MsgPaths(msg), p)

\* a full bucket was sent a message listing a new path and a held one: the
\* new path was dropped and the held one incremented
C12_Witness ==
    \E key \in DOMAIN buckets :
        /\ DOMAIN buckets[key] = {"a", "b"}
        /\ buckets[key]["a"] = 2
        /\ buckets[key]["b"] = 1
        /\ inputs = 2
        /\ counted = 3

-----------------------------------------------------------------------------
(* C13: the running totals of the two aggregators                          *)

\* the totals of metrics are those of the requests tallied in log
TotalsMatch(metrics, log) ==
    /\ metrics.totalRequests = log.requests
    /\ metrics.optimizedRequests = log.optimized
    /\ metrics.optimizedRequests <= metrics.totalRequests
    /\ metrics.bandwidthSaved = log.saved

-----------------------------------------------------------------------------
(* C14: a batch whose transmission fails is dropped                        *)

StampsOf(buffer) == {buffer[i].timestamp : i \in 1..Len(buffer)}

\* a transmission in flight is rejected
TransmissionFails ==
    /\ sends'.failed = sends.failed + 1
    /\ sends'.started = sends.started

\* the reporter's beacon throws within flush()
BeaconFails ==
    /\ sends'.failed = sends.failed + 1
    /\ sends'.started = sends.started + 1

-----------------------------------------------------------------------------
(* C15: a failing delivery and the caller                                  *)

\* C15: no exception raised while a batch is delivered leaves
\* trackPropertyAccess, trackRequest or flushNow, and none leaves the read of a
\* property of an instrumented object.
C15_DeliveryFailureNeverEscapes == raised = None /\ ~lastRead.threw

-----------------------------------------------------------------------------
(* C16: reset() of the two aggregators                                     *)

Cleared(metrics) ==
    /\ metrics.totalRequests = 0
    /\ metrics.optimizedRequests = 0
    /\ metrics.bandwidthSaved = 0
    /\ DOMAIN metrics.propertyAccesses = {}

\* C16: from every reachable state reset() leaves totalRequests,
\* optimizedRequests and bandwidthSaved at 0 and the per-path counts and the
\* event buffer empty, in the worker and in the singleton; an event that was
\* in the buffer when reset() ran is in no buffer afterwards and in no batch
\* handed to the transport or the sink, and the step that discards events
\* leaves the aggregator that discarded them cleared.
C16_ResetClearsEverything ==
    /\ [](/\ Cleared(ResetWorker(worker).metrics)
           /\ ResetWorker(worker).buffer = <<>>
           /\ Cleared(ResetAnalytics(analytics).metrics)
           /\ ResetAnalytics(analytics).batch = <<>>
           /\ sends.discarded \cap sends.handed = {}
           /\ sends.discarded \cap StampsOf(worker.buffer) = {}
           /\ sends.discarded \cap StampsOf(analytics.batch) = {})
    /\ [][sends'.discarded # sends.discarded =>
            \/ Cleared(worker'.metrics) /\ worker'.buffer = <<>> /\ worker.buffer # <<>>
            \/ Cleared(analytics'.metrics) /\ analytics'.batch = <<>>
                  /\ analytics.batch # <<>>]_vars

\* the worker was reset with an event in its buffer, then recorded a request
\* and handed it over: the batch holds the later event only and the totals
\* count it alone
C16_Witness ==
    /\ sends.discarded = {1}
    /\ sends.handed = {2}
    /\ worker.metrics.totalRequests = 1
    /\ worker.buffer = <<>>

-----------------------------------------------------------------------------
(* C17 and C18: how far and on which names the proxy instruments           *)

\* the application reads a property of the value it holds
ReadHappens == inputs' = inputs + 1

\* the event a step appends to the batch of the singleton
Batched(e) ==
    /\ Len(analytics'.batch) = Len(analytics.batch) + 1
    /\ analytics'.batch[Len(analytics'.batch)] = e

\* C17: a proxy exists only at depths up to maxDepth; every read that is
\* tracked is a read on a proxy and its AccessEvent has depth <= maxDepth; an
\* object or array lying deeper than maxDepth is returned unwrapped, and a read
\* on an unwrapped value produces no event.
C17_NeverPastMaxDepth ==
    /\ [](held.wrapped =>
              held.depth <= proxyOptions.maxDepth /\ held.depth = Len(held.path))
    /\ [][ReadHappens =>
            /\ lastRead'.tracked =>
                  /\ lastRead'.on.wrapped
                  /\ lastRead'.on.depth <= proxyOptions.maxDepth
            /\ \A e \in {analytics'.batch[i] : i \in 1..Len(analytics'.batch)} :
                  Batched(e) => e.depth <= proxyOptions.maxDepth
            /\ Len(lastRead'.result.path) > proxyOptions.maxDepth =>
                  ~lastRead'.result.wrapped
            /\ ~held.wrapped =>
                  ~lastRead'.tracked /\ UNCHANGED <<analytics, sends, raised>>]_vars

\* with maxDepth 0 the nested object was returned unwrapped, and the read of
\* a property of it produced no event
C17_Witness ==
    /\ proxyOptions.maxDepth = 0
    /\ lastRead.on = Raw(<<"a">>)
    /\ lastRead.prop = "n"
    /\ ~lastRead.tracked
    /\ Len(analytics.batch) = 1
    /\ analytics.batch[1].propertyPath = <<"a">>

\* the read of a step was one of a name on the exclusion list, through a proxy
ExcludedReadHappens ==
    /\ ReadHappens
    /\ held.wrapped
    /\ lastRead'.prop \in proxyOptions.excludePaths

\* C18: the read of a property whose name is on the exclusion list, through an
\* instrumented object, produces no AccessEvent (the singleton and its sink
\* are not touched) and returns the underlying value of that property
\* unwrapped, whatever its kind.
C18_ExcludedReadsPassThrough ==
    [][ExcludedReadHappens =>
        /\ ~lastRead'.tracked
        /\ ~lastRead'.threw
        /\ lastRead'.result = Raw(Append(held.path, lastRead'.prop))
        /\ UNCHANGED <<analytics, analyticsLog, sends, raised>>]_vars

\* "a" is on the exclusion list of the root: the object it names was read
\* through the root proxy and came back unwrapped, with no event
C18_Witness ==
    /\ proxyOptions.excludePaths = {"a"}
    /\ lastRead.on = Proxy(<<>>, 0)
    /\ lastRead.prop = "a"
    /\ lastRead.result = Raw(<<"a">>)
    /\ ~lastRead.tracked
    /\ analytics.batch = <<>>
    /\ DOMAIN analytics.metrics.propertyAccesses = {}

-----------------------------------------------------------------------------
(* C19: patchGlobals and unpatch                                           *)

\* the unpatch of the patch in force runs
CurrentUnpatchRuns ==
    /\ window._synpaticoPatched
    /\ ~window'._synpaticoPatched
    /\ window'.fetch = window._synpaticoUnpatch.fetch

\* patchGlobals is called while a patch is in force
PatchedAgain ==
    /\ window._synpaticoPatched
    /\ Len(handles') = Len(handles) + 1

\* C19 as stated: unpatch puts back the very functions that were installed
\* before patching, window.fetch included.
C19_UnpatchRestoresInstalledFunctions ==
    [][CurrentUnpatchRuns =>
        /\ window'.fetch = prePatch.fetch
        /\ XMLHttpRequest'.open = prePatch.open
        /\ XMLHttpRequest'.send = prePatch.send]_vars

\* C19 amended: unpatch puts back XMLHttpRequest.prototype.open/send as they
\* were installed before patching, and sets window.fetch to the copy of the
\* pre-patch fetch that patchGlobals bound to window, a function that calls
\* the pre-patch one but is not identical to it; patchGlobals called while a
\* patch is in force changes neither window.fetch nor XMLHttpRequest and
\* returns a handle with the unpatch of the patch in force, which performs
\* that same restore.
C19_UnpatchRestoresBoundFetch ==
    /\ [](window._synpaticoPatched =>
              /\ window._synpaticoUnpatch.fetch = Bind(prePatch.fetch)
              /\ window._synpaticoUnpatch.open = prePatch.open
              /\ window._synpaticoUnpatch.send = prePatch.send
              /\ window.fetch = Fn("core.fetch"))
    /\ [][/\ CurrentUnpatchRuns =>
                /\ window'.fetch = Bind(prePatch.fetch)
                /\ window'.fetch # prePatch.fetch
                /\ window'.fetch.target = prePatch.fetch.target
                /\ XMLHttpRequest'.open = prePatch.open
                /\ XMLHttpRequest'.send = prePatch.send
          /\ PatchedAgain =>
                /\ UNCHANGED <<window, XMLHttpRequest, prePatch>>
                /\ handles'[Len(handles')] = PatchHandle(TRUE, window._synpaticoUnpatch)
                /\ \E i \in 1..Len(handles) : handles[i] = handles'[Len(handles')]]_vars

\* patchGlobals was called twice in a row and returned two handles with one
\* unpatch; it ran, and fetch is the bound copy of the first fetch while open
\* and send are the first ones
C19_Witness ==
    /\ Len(handles) = 2
    /\ handles[1].unpatch = handles[2].unpatch
    /\ ~window._synpaticoPatched
    /\ window.fetch = Bind(Fn("fetch"))
    /\ XMLHttpRequest.open = Fn("open")
    /\ XMLHttpRequest.send = Fn("send")

-----------------------------------------------------------------------------
(* C21: concurrent calls; at most two underlying calls per call            *)

\* the step in which the first response of slot c arrives and is a 409
ConflictArrives(c) ==
    /\ calls[c].pc = "sent"
    /\ Len(calls'[c].received) = 1
    /\ calls'[c].received[1].status = CONFLICT

\* C21: under every interleaving of two calls, a call issues at most two underlying
\* calls; the second one (retry or reissue) carries no negotiation header; when it
\* resolves, the call ends with that response as it is, with no further call, no
\* hook emission and no change of the registry or the known origins; and the step
\* in which one call receives a 409 changes nothing of the other call.
C21_AtMostTwoCallsPerFetch ==
    /\ [](\A c \in Slots :
            /\ Len(calls[c].sent) <= 2
            /\ Len(calls[c].sent) = 2 =>
                  /\ calls[c].sent[2].acceptId = None
                  /\ calls[c].sent[2].url = calls[c].url
                  /\ calls[c].pc \in {"resent", "done"}
                  /\ calls[c].pc = "done" =>
                        /\ Len(calls[c].received) = 2
                        /\ calls[c].result = Resolved(calls[c].received[2]))
    /\ [][\A c \in Slots :
            /\ (calls[c].pc = "resent" /\ calls'[c] # calls[c]) =>
                  /\ calls'[c].pc = "done"
                  /\ calls'[c].sent = calls[c].sent
                  /\ calls'[c].learned = calls[c].learned
                  /\ calls'[c].decoded = calls[c].decoded
                  /\ calls'[c].errors = calls[c].errors
                  /\ UNCHANGED registryVars
            /\ ConflictArrives(c) =>
                  \A d \in Slots \ {c} : calls'[d] = calls[d]
         ]_vars

\* two hinted calls are in flight; one was answered 409 and has issued its retry
\* without the header, the other still waits with its header on
C21_Witness ==
    /\ calls["c1"].pc = "resent"
    /\ HintedConflict(calls["c1"])
    /\ Len(calls["c1"].sent) = 2
    /\ calls["c1"].sent[2].acceptId = None
    /\ calls["c2"].pc = "sent"
    /\ calls["c2"].sent = <<Request(UrlUsers5, "GET", "sidA", "enhanced")>>

\* a reissue after an undecodable packet answering a hinted call has resolved
C21_ReissueWitness ==
    /\ calls["c2"].pc = "done"
    /\ Len(calls["c2"].sent) = 2
    /\ calls["c2"].sent[1].acceptId = "sidA"
    /\ calls["c2"].received[1].ct = PACKET_CT
    /\ calls["c1"].pc = "json"

-----------------------------------------------------------------------------
(* C22: what the fallback after an undecodable packet sends                *)

\* the call of slot c read a packet body and fell back to a second underlying call
FellBack(call) ==
    /\ Len(call.sent) = 2
    /\ Len(call.received) >= 1
    /\ Classify(call, call.received[1]) = "text"

\* C22 as stated: the fallback after a packet that cannot be decoded (unknown
\* StructureId, malformed body, codec rejection) reissues the original call: the
\* same URL, the same method and the caller's init, without the negotiation header.
C22_FallbackRepeatsTheCall ==
    \A c \in Slots :
        FellBack(calls[c]) =>
            calls[c].sent[2] = Request(calls[c].url, calls[c].method, None, "caller")

-----------------------------------------------------------------------------
(* C23: which recovered errors reach onError                               *)

\* the call of slot c went through learnFromJsonResponse and something failed there:
\* the body was not JSON, could not be read, or a learn-time hook threw
LearnFailed(call) ==
    /\ call.pc = "done"
    /\ Len(call.received) = 1
    /\ Classify(call, call.received[1]) = "json"
    /\ \/ JSONparseThrows(call.received[1].body)
       \/ call.caught \in {"body", "onLearnedStructure", "transformDecoded"}

\* C23 as stated: with onError configured, a call that recovered from an
\* undecodable packet (malformed body, unknown StructureId, codec or hook
\* exception) has reported phase 'decode', and a call that recovered from a failure
\* while learning has reported phase 'learn', by the time it returns.
C23_RecoveredErrorsAreReported ==
    \A c \in Slots :
        HooksConfigured =>
            /\ (FellBack(calls[c]) /\ calls[c].pc = "done") => "decode" \in calls[c].errors
            /\ LearnFailed(calls[c]) => "learn" \in calls[c].errors

-----------------------------------------------------------------------------
(* C24: when the client adds the negotiation header                        *)

\* the URL parses and its origin is one an agent-marked response came from
OriginKnown(url) == UrlParses(url) /\ UrlOrigin(url) \in knownSynpaticoOrigins

\* C24: an underlying call carries a header added by the client only as the first
\* call of a GET whose origin is known and whose URL has a registry entry, and the
\* header is that entry's StructureId as the registry holds it when the call is
\* sent; a call to an unregistered URL or to an origin not known carries none, and
\* no retry or reissue carries one.
C24_HeaderOnlyFromRegistry ==
    [][\A c \in Slots :
        /\ StartsCall(c) =>
              LET url == calls'[c].url
                  hint == calls'[c].sent[1].acceptId
              IN  /\ hint # None =>
                        /\ calls'[c].method = "GET"
                        /\ OriginKnown(url)
                        /\ url \in DOMAIN requestToStructureId
                        /\ hint = requestToStructureId[url]
                  /\ (url \notin DOMAIN requestToStructureId \/ ~OriginKnown(url)) =>
                        hint = None
        /\ Len(calls'[c].sent) = 2 => calls'[c].sent[2].acceptId = None
      ]_vars

\* a GET carries the id its URL was registered with, while another registered URL,
\* whose origin is not known, would get none
C24_Witness ==
    /\ calls["c1"].pc = "sent"
    /\ calls["c1"].method = "GET"
    /\ calls["c1"].url = UrlUsers9
    /\ OriginKnown(UrlUsers9)
    /\ UrlUsers9 \in DOMAIN requestToStructureId
    /\ calls["c1"].sent[1].acceptId = requestToStructureId[UrlUsers9]
    /\ UrlRelative \in DOMAIN requestToStructureId
    /\ acceptIdHint(UrlRelative, TRUE) = None

-----------------------------------------------------------------------------
(* C25: what writes the registry                                           *)

\* the step writes the registry: an entry is new or holds another value
RegistryWritten ==
    \/ \E u \in DOMAIN requestToStructureId' :
          u \notin DOMAIN requestToStructureId
              \/ requestToStructureId'[u] # requestToStructureId[u]
    \/ \E id \in DOMAIN structures' :
          id \notin DOMAIN structures \/ structures'[id] # structures[id]

\* an agent-marked application/json response whose body is JSON but no plain object
IsUnlearnable(resp) ==
    /\ resp.marker
    /\ resp.ct = JSON_CT
    /\ resp.body.valid
    /\ resp.body.value.kind \in {"array", "null", "number"}

\* C25: a step writes the registry only for a call whose response carries the agent
\* marker, the JSON content type and a plain-object body, and the entry written is
\* that call's; a call that read an agent-marked JSON body which is an array, a
\* primitive or null, and a call whose agent-marked response is neither JSON nor a
\* packet (and is not the 409 answer to a hinted call), resolves with the response
\* as it arrived, writes nothing to the registry and emits no onLearnedStructure.
C25_OnlyPlainObjectsAreLearned ==
    [][/\ RegistryWritten =>
            \E c \in Slots :
                /\ calls[c].pc = "json"
                /\ calls'[c].pc = "done"
                /\ IsLearnable(calls[c].received[1])
                /\ DOMAIN requestToStructureId' = DOMAIN requestToStructureId \cup {calls[c].url}
       /\ \A c \in Slots :
            /\ (/\ calls[c].pc = "json"
                /\ calls'[c].pc = "done"
                /\ IsUnlearnable(calls[c].received[1])) =>
                    /\ calls'[c].result = Resolved(calls[c].received[1])
                    /\ calls'[c].learned = 0
                    /\ ~RegistryWritten
            /\ (/\ FirstResponseArrives(c)
                /\ calls'[c].received[1].marker
                /\ calls'[c].received[1].ct \notin {JSON_CT, PACKET_CT}
                /\ ~HintedConflict(calls'[c])) =>
                    /\ calls'[c].pc = "done"
                    /\ calls'[c].result = Resolved(calls'[c].received[1])
                    /\ calls'[c].learned = 0
                    /\ ~RegistryWritten
      ]_vars

\* an agent-marked JSON array was returned as it arrived to a call with hooks
\* configured, and the registry is still empty
C25_Witness ==
    /\ HooksConfigured
    /\ calls["c1"].pc = "done"
    /\ Len(calls["c1"].received) = 1
    /\ IsUnlearnable(calls["c1"].received[1])
    /\ calls["c1"].received[1].body.value = ArrayValue
    /\ calls["c1"].caught = None
    /\ calls["c1"].result = Resolved(calls["c1"].received[1])
    /\ requestToStructureId = EmptyMap
    /\ structures = EmptyMap

-----------------------------------------------------------------------------
(* C26: a stale registry entry after a 409 or a failed decode              *)

\* the step in which the retry or the reissue of slot c resolves
SecondResponseArrives(c) ==
    /\ calls[c].pc = "resent"
    /\ Len(calls'[c].received) = 2

\* C26 as stated: when the retry after a 409, or the reissue after a failed decode,
\* of a hinted call returns an agent-marked plain-object JSON body, the registry
\* entry of the call's URL holds the StructureId of that body afterwards.
C26_StaleShapeIsReplaced ==
    [][\A c \in Slots :
        (/\ SecondResponseArrives(c)
         /\ calls[c].sent[1].acceptId # None
         /\ IsLearnable(calls'[c].received[2])) =>
            /\ calls[c].url \in DOMAIN requestToStructureId'
            /\ requestToStructureId'[calls[c].url] =
                  createStructureDefinition(calls'[c].received[2].body.value).id
      ]_vars

-----------------------------------------------------------------------------
(* C27: the registry between two clearCache calls                          *)

\* the step in which slot c registers what it learned
Registers(c) ==
    /\ calls[c].pc = "json"
    /\ calls'[c].pc = "done"
    /\ calls'[c].caught # "body"
    /\ IsLearnable(calls[c].received[1])

\* C27: a step of a call removes no registered URL and no stored definition and
\* leaves every stored definition as it was (only clearCache, which is no step of a
\* call, empties the maps); a learn sets the entry of its URL to the id it computed
\* and changes no other entry, whether or not the URL was registered before; and a
\* learn of a shape the URL is already registered with leaves both maps unchanged.
C27_RegistryOnlyGrows ==
    [][/\ calls' # calls =>
            /\ DOMAIN requestToStructureId \subseteq DOMAIN requestToStructureId'
            /\ DOMAIN structures \subseteq DOMAIN structures'
            /\ \A id \in DOMAIN structures : structures'[id] = structures[id]
       /\ \A c \in Slots :
            Registers(c) =>
                LET url == calls[c].url
                    def == createStructureDefinition(calls[c].received[1].body.value)
                IN  /\ DOMAIN requestToStructureId' = DOMAIN requestToStructureId \cup {url}
                    /\ requestToStructureId'[url] = def.id
                    /\ \A u \in DOMAIN requestToStructureId \ {url} :
                          requestToStructureId'[u] = requestToStructureId[u]
                    /\ DOMAIN structures' = DOMAIN structures \cup {def.id}
                    /\ structures'[def.id] = def
                    /\ (/\ url \in DOMAIN requestToStructureId
                        /\ requestToStructureId[url] = def.id
                        /\ def.id \in DOMAIN structures) =>
                            UNCHANGED <<structures, requestToStructureId>>
      ]_vars

\* a URL registered with one shape was learned again with the other: its entry holds
\* the new id, the entry of another URL and both definitions are still there
C27_Witness ==
    /\ calls["c1"].pc = "done"
    /\ calls["c1"].url = UrlUsers5
    /\ calls["c1"].sent = <<Request(UrlUsers5, "GET", "sidA", "enhanced")>>
    /\ Len(calls["c1"].received) = 1
    /\ IsLearnable(calls["c1"].received[1])
    /\ DOMAIN requestToStructureId = {UrlUsers5, UrlUsers9}
    /\ requestToStructureId[UrlUsers5] = "sidAB"
    /\ requestToStructureId[UrlUsers9] = "sidA"
    /\ DOMAIN structures = {"sidA", "sidAB"}

-----------------------------------------------------------------------------
(* C28: two first-time learning calls to one endpoint race                 *)

\* slot c is a first-time call: it was sent without the header
FirstTime(call) == call.sent = <<Request(call.url, call.method, None, "enhanced")>>

\* C28: when a first-time call registers what it learned while another first-time
\* call to the same URL is under way or has finished, the entry of the URL becomes
\* the id of this call's body whatever the other call wrote (the last learn wins);
\* the step reports no error, resolves this call with its own body (or its
\* transform) and leaves the other call, its result included, as it was.
C28_LastLearnWins ==
    [][\A c \in Slots : \A d \in Slots \ {c} :
        (/\ Registers(c)
         /\ FirstTime(calls[c])
         /\ FirstTime(calls[d])
         /\ calls[d].url = calls[c].url) =>
            LET data == calls[c].received[1].body.value
                id == createStructureDefinition(data).id
            IN  /\ requestToStructureId'[calls[c].url] = id
                /\ calls'[c].errors = calls[c].errors
                /\ calls'[c].result.state = "resolved"
                /\ calls'[c].result.response.body.value \in
                      {data, transformDecoded(id, FALSE, data)}
                /\ calls'[d] = calls[d]
      ]_vars

\* both calls were sent before either had learned, were answered with different
\* shapes and returned their own bodies; the entry holds the id of the shape that
\* was registered last, here the one of the first slot
C28_Witness ==
    /\ options.lifecycle = "none"
    /\ calls["c1"].pc = "done" /\ calls["c2"].pc = "done"
    /\ FirstTime(calls["c1"]) /\ FirstTime(calls["c2"])
    /\ Len(calls["c1"].received) = 1 /\ Len(calls["c2"].received) = 1
    /\ calls["c1"].result.response.body.value = Obj(<<"a">>, <<1>>)
    /\ calls["c2"].result.response.body.value = Obj(<<"a", "b">>, <<1, 1>>)
    /\ DOMAIN structures = {"sidA", "sidAB"}
    /\ requestToStructureId[UrlUsers5] = "sidA"

-----------------------------------------------------------------------------
(* C29: packet failures in createSynpaticoClient                           *)

\* C29 as stated: in the client with analytics a malformed packet body and an
\* exception of the codec are not fatal: the promise of fetch is not rejected
\* with them.
C29_PacketFailuresAreNonFatal ==
    \A c \in Slots :
        calls[c].result.state = "rejected" =>
            calls[c].result.error \notin {"SyntaxError", "DecodeError"}

-----------------------------------------------------------------------------
(* Properties of the monkey patch *)

\* a JSON value without the agent header
UnmarkedJson(res) == ~res.marker /\ ~ParsesToNull(res) /\ JSONparse(res.body).kind = "object"

\* patchedFetch settles a call whose response is unmarked JSON for an endpoint
\* without a registry entry
UnmarkedUnknownSettles ==
    /\ fetching.pc = "parsing"
    /\ fetching'.pc = "done"
    /\ UnmarkedJson(fetching.received[1])
    /\ registryKey(fetching.url) \notin DOMAIN registry

\* C30: a JSON response without the agent marker, for an endpoint without a
\* registry entry, is returned to the caller: the call does not fail and no
\* registry entry is created
C30_UnmarkedJsonPassesThrough ==
    [][UnmarkedUnknownSettles =>
          /\ fetching'.result.state = "resolved"
          /\ registry' = registry]_vars

\* the configuration optimizes the URL: enabled, sampleRate 1, include(url) true
\* and exclude(url) false
ConfiguredToOptimize ==
    isEnabled /\ CONFIG.sampleRate = 100 /\ CONFIG.include /\ ~CONFIG.exclude

\* the Accept-ID header a request to an endpoint with a registry entry carries
HintedWithCachedId(before, after) ==
    /\ before.pc # "sent"
    /\ after.pc = "sent"
    /\ registryKey(after.url) \in DOMAIN registry
    => after.sent[1].acceptId = registry[registryKey(after.url)].id

\* C31: while enabled with sampleRate 1, a fetch or XHR to an included, not
\* excluded URL whose endpoint has a registry entry is sent with the Accept-ID
\* header equal to the cached definition's id
C31_IncludedUrlIsHinted ==
    [][ConfiguredToOptimize =>
          /\ HintedWithCachedId(fetching, fetching')
          /\ HintedWithCachedId(xhr, xhr')]_vars

-----------------------------------------------------------------------------
(* Properties of the batching *)

\* record(e) ran in this step of the worker
Recorded == worker.enabled /\ inputs' # inputs /\ Len(worker'.buffer) # Len(worker.buffer)

\* trackPropertyAccess(e) ran in this step of the enabled singleton
Tracked ==
    /\ analytics.enabled
    /\ inputs' # inputs
    /\ analytics'.metrics.propertyAccesses # analytics.metrics.propertyAccesses

\* the transmissions of the worker this step started
StartedByWorker == {t \in sends'.pending \ sends.pending : t.from = "worker"}

\* the step hands over nothing or one batch, from the buffer and the new event
HandsOverInOrder(buffer, from, always) ==
    /\ sends'.started \in {sends.started, sends.started + 1}
    /\ always => sends'.started = sends.started + 1
    /\ sends'.started = sends.started + 1 =>
          /\ sends'.events = sends.events + Len(buffer) + 1
          /\ sends'.handed = sends.handed
                 \cup {buffer[i].timestamp : i \in 1..Len(buffer)} \cup {inputs'}

\* C32: while enabled, after every record of the worker and every
\* trackPropertyAccess of the singleton the buffer holds fewer than maxBatchSize
\* events; reaching maxBatchSize empties the buffer into exactly one batch that
\* holds those events in arrival order
C32_SizeTriggeredFlush ==
    /\ [](/\ worker.enabled => Len(worker.buffer) < WorkerMaxBatchSize
          /\ analytics.enabled => Len(analytics.batch) < AnalyticsMaxBatchSize)
    /\ [][/\ Recorded /\ Len(worker.buffer) + 1 >= WorkerMaxBatchSize =>
                /\ worker'.buffer = <<>>
                /\ HandsOverInOrder(worker.buffer, "worker", worker.transport = "fetch")
                /\ \A t \in StartedByWorker :
                      /\ SubSeq(t.payload, 1, Len(worker.buffer)) = worker.buffer
                      /\ t.payload[Len(t.payload)].timestamp = inputs'
                      /\ Len(t.payload) = Len(worker.buffer) + 1
          /\ Tracked /\ Len(analytics.batch) + 1 >= AnalyticsMaxBatchSize =>
                /\ analytics'.batch = <<>>
                /\ HandsOverInOrder(analytics.batch, "analytics", analytics.onBatch)
          /\ Recorded /\ Len(worker.buffer) + 1 < WorkerMaxBatchSize =>
                sends' = sends /\ Len(worker'.buffer) = Len(worker.buffer) + 1
          /\ Tracked /\ Len(analytics.batch) + 1 < AnalyticsMaxBatchSize =>
                sends' = sends /\ Len(analytics'.batch) = Len(analytics.batch) + 1]_vars

\* the worker, still enabled, handed a full batch to its transport: its buffer
\* is empty and the batch holds the events in the order of their timestamps
C32_Witness ==
    /\ worker.enabled
    /\ worker.buffer = <<>>
    /\ \E t \in sends.pending :
          /\ t.from = "worker"
          /\ Len(t.payload) = WorkerMaxBatchSize
          /\ \A i \in 1..Len(t.payload) : t.payload[i].timestamp = i

\* C33: every event the enabled worker recorded is eventually taken out of the
\* buffer by a flush its timer drives, with no later event and no flush message,
\* also when it was recorded while a transmission was pending
C33_RecordedEventsAreFlushedInTime ==
    (worker.enabled /\ worker.buffer # <<>>) ~> (worker.buffer = <<>>)

-----------------------------------------------------------------------------
(* Properties of the usage worker's buckets *)

\* the payloads of the usage worker in flight
UsagePayloads == {t \in sends.pending : t.from = "usageWorker"}

\* the usage worker counted a message in this step
MessageHandled == reporterState.worker /\ inputs' # inputs /\ counted' # counted

\* flush of the usage worker ran in this step
UsageFlushed == sends'.increments # sends.increments \/ (buckets # EmptyMap /\ buckets' = EmptyMap)

\* C34: a bucket is created by the first message for its key and a flush
\* empties all buckets; whatever the interleaving of messages with a flush in
\* flight, every path occurrence accepted into a bucket is in exactly one flush
\* payload or still in its bucket, and a payload holds the counts accepted since
\* the flush before
C34_EveryOccurrenceInOnePayload ==
    /\ [](counted = sends.increments + BucketsTotal(buckets))
    /\ [][/\ MessageHandled =>
                /\ DOMAIN buckets \subseteq DOMAIN buckets'
                /\ Cardinality(DOMAIN buckets') <= Cardinality(DOMAIN buckets) + 1
                /\ \E msg \in TelemetryMsgs(inputs') :
                      bucketKey(msg.structureId, msg.endpoint) \in DOMAIN buckets'
                /\ sends' = sends
          /\ UsageFlushed =>
                /\ buckets' = EmptyMap
                /\ sends'.started = sends.started + 1
                /\ UsagePayloads \subseteq sends'.pending
                /\ \E t \in sends'.pending \ sends.pending :
                      /\ t.from = "usageWorker"
                      /\ t.payload = buckets
                      /\ BucketsTotal(t.payload) = counted - sends.increments
                      /\ sends'.pending = sends.pending \cup {t}]_vars

\* a message was counted while the payload of the flush before it is in flight
C34_Witness ==
    /\ UsagePayloads # {}
    /\ buckets # EmptyMap
    /\ counted = sends.increments + BucketsTotal(buckets)
    /\ sends.increments > 0

-----------------------------------------------------------------------------
(* Properties of the traps of the tracking proxy *)

\* the application used a name on the exclusion list on a proxy it holds:
\* read it, checked its existence, wrote it or looked up its descriptor
ExcludedNameUsed(traps) ==
    /\ inputs' = inputs + 1
    /\ held.wrapped
    /\ lastRead'.trap \in traps
    /\ lastRead'.prop \in proxyOptions.excludePaths

\* C35: a property name on the exclusion list is never instrumented: an
\* existence check, a write or a descriptor lookup of an excluded name through
\* an instrumented object produces no AccessEvent, as a read of it produces none
C35_ExcludedNamesNeverInstrumented ==
    [][ExcludedNameUsed({"get", "has", "set", "getOwnPropertyDescriptor"}) =>
          UNCHANGED <<analytics, sends>>]_vars

\* the AccessEvents the enabled singleton was given so far
Accesses(a) == BucketTotal(a.metrics.propertyAccesses)

\* the application read a name that is not excluded through a proxy it holds
TrackedReadHappens ==
    /\ inputs' = inputs + 1
    /\ held.wrapped
    /\ lastRead'.trap = "get"
    /\ lastRead'.prop \notin proxyOptions.excludePaths

\* C36: double-wrapping is avoided: createTrackingProxy of an instrumented
\* object stacks no second wrapper, and one property read by the application
\* produces exactly one AccessEvent
C36_NoDoubleWrapping ==
    /\ [](held.wrapped => held.under = 0)
    /\ [][TrackedReadHappens => Accesses(analytics') = Accesses(analytics) + 1]_vars

\* the dot-joined names from the instrumentation root to prop of proxy h,
\* with context.rootPath in front once when it is set
PathFromRoot(h, prop) ==
    (IF h.prefix > 0 THEN <<RootPath>> ELSE <<>>) \o Append(h.path, prop)

\* the one event the singleton was given in this step
OneEvent(path, depth) ==
    /\ analytics'.metrics.propertyAccesses =
          Increment(analytics.metrics.propertyAccesses, path)
    /\ Len(analytics'.batch) = Len(analytics.batch) + 1 =>
          /\ analytics'.batch[Len(analytics'.batch)].propertyPath = path
          /\ analytics'.batch[Len(analytics'.batch)].depth = depth

\* an operation other than a read on a proxy that is no proxy of a proxy
TrapRuns(trap) ==
    /\ inputs' = inputs + 1
    /\ held.wrapped
    /\ held.under = 0
    /\ lastRead'.trap = trap

\* C37: a read of a name that is not excluded, through an instrumented object
\* at depth d <= maxDepth, returns the underlying value and records exactly one
\* AccessEvent with depth d and the dot-joined d+1 names from the root as its
\* propertyPath, prefixed once by context.rootPath when it is set; existence
\* checks, writes and key enumerations record the same path with their tag
C37_ReadsRecordThePathFromTheRoot ==
    [][/\ TrackedReadHappens /\ held.under = 0 =>
             /\ held.depth <= proxyOptions.maxDepth
             /\ lastRead'.result.path = Append(held.path, lastRead'.prop)
             /\ OneEvent(PathFromRoot(held, lastRead'.prop), Len(held.path))
       /\ TrapRuns("has") =>
             OneEvent(Append(PathFromRoot(held, lastRead'.prop), "[has]"), Len(held.path))
       /\ TrapRuns("set") =>
             OneEvent(Append(PathFromRoot(held, lastRead'.prop), "[write]"), Len(held.path))
       /\ TrapRuns("ownKeys") =>
             OneEvent((IF held.prefix > 0 THEN <<RootPath>> ELSE <<>>)
                          \o Append(held.path, "[keys]"), Len(held.path))]_vars

\* every StructureId a URL is registered under has its definition
IdsHaveDefinitions ==
    \A u \in DOMAIN requestToStructureId :
        requestToStructureId[u] \in DOMAIN structures

\* the origin of every registered URL that has one is known-optimizable
RegisteredOriginsKnown ==
    \A u \in DOMAIN requestToStructureId :
        UrlParses(u) => UrlOrigin(u) \in knownSynpaticoOrigins

\* C38: in every reachable state of createCore, under any interleaving of fetch
\* calls and clearCache, every StructureId stored in requestToStructureId is a
\* key of structures, and the origin of every URL registered in
\* requestToStructureId is in the set of known origins
C38_RegistryConsistent == IdsHaveDefinitions /\ RegisteredOriginsKnown

\* call was sent with a hint and has been answered with a packet for the hinted id
HintedPacket(call) ==
    /\ call.sent # <<>>
    /\ call.sent[1].acceptId # None
    /\ call.received # <<>>
    /\ call.received[1].marker
    /\ call.received[1].ct = PACKET_CT
    /\ ~JSONparseThrows(call.received[1].body)
    /\ JSONparse(call.received[1].body).kind = "packet"
    /\ JSONparse(call.received[1].body).structureId = call.sent[1].acceptId

\* the body of the packet response of call c has been read in this step
PacketRead(c) == calls[c].pc = "text" /\ calls'[c].pc # "text"

\* the definition of the hinted id is gone when the packet of call c is looked up
DefinitionCleared(c) ==
    /\ HintedPacket(calls[c])
    /\ calls[c].sent[1].acceptId \notin DOMAIN structures

\* C39: a packet is decoded only against a definition that is in the registry
\* when the packet is looked up; if clearCache() ran while a hinted call was in
\* flight and the server answers with a packet for the hinted id, the call
\* issues one reissue without a hint, returns the response to it, and changes
\* nothing in the registry (the reissued response is not learned)
C39_ClearedDefinitionFallsBack ==
    [][\A c \in Slots :
        /\ PacketRead(c) /\ calls'[c].result.state = "resolved" =>
              JSONparse(calls[c].received[1].body).structureId \in DOMAIN structures
        /\ PacketRead(c) /\ DefinitionCleared(c) =>
              /\ calls'[c].pc = "resent"
              /\ Len(calls'[c].sent) = 2
              /\ calls'[c].sent[2].acceptId = None
              /\ calls'[c].errors = calls[c].errors
              /\ UNCHANGED registryVars
        /\ calls[c].pc = "resent" /\ HintedPacket(calls[c]) /\ calls'[c].pc = "done" =>
              /\ Len(calls'[c].sent) = 2
              /\ Len(calls'[c].received) = 2
              /\ calls'[c].result = Resolved(calls'[c].received[2])
              /\ UNCHANGED registryVars]_vars

C39_Witness ==
    \E c \in Slots :
        /\ calls[c].pc = "done"
        /\ HintedPacket(calls[c])
        /\ calls[c].caught = None
        /\ calls[c].errors = {}
        /\ Len(calls[c].sent) = 2
        /\ calls[c].result = Resolved(calls[c].received[2])
        /\ structures = EmptyMap
        /\ requestToStructureId = EmptyMap

\* a hook of the LEARN path threw in the call
LearnHookThrew(call) == call.caught \in {"onLearnedStructure", "transformDecoded"}

\* the id of the definition made from the JSON body the call received
LearnedId(call) == ShapeId(JSONparse(call.received[1].body).keys)

====
